---------------------------- MODULE Spec2Model ----------------------------
(***************************************************************************)
(* Model of the Web Serial telemetry front end (src/script.js and its      *)
(* variants): the text handshake of connect(), readUntil(), the streaming  *)
(* readLoop() with its frame reassembly, disconnect(), computeChecksum()   *)
(* and parseMessage().                                                     *)
(*                                                                         *)
(* Bytes are integers 0..255.  Indices of the helper operators are the     *)
(* 0-based indices of the JavaScript source; TLA+ sequences are 1-based.   *)
(***************************************************************************)
EXTENDS Integers, Sequences, FiniteSets, TLC

VARIABLES
    \* the globals of the page script
    port,          \* "null" or "P", the SerialPort the user picked
    reader,        \* "null", or the streaming reader: "locked" or "released"
    writer,        \* "null", or the writer: "locked" or "closing"
    keepReading,
    textBuffer,    \* text accumulated by connect()'s detection loop
    connectBtn,    \* connectBtn.disabled
    disconnectBtn, \* disconnectBtn.disabled
    \* locals of the running async functions
    cpc,           \* where connect() is suspended
    dpc,           \* where each disconnect() is suspended: the user's, connect()'s
    rpc,           \* where readLoop() is suspended
    tlock,         \* lock of connect()'s tempReader ("temp") or readUntil's r ("until")
    acc,           \* readUntil's `acc`
    timeLeft,      \* max(0, deadline - Date.now()) of the running wait, in ms
    buffer,        \* readLoop's local `buffer` (script.js)
    \* the transport
    portOpen,      \* the SerialPort is opened
    gone,          \* the device is lost: port.readable and port.writable are null
    written,       \* the strings written to the port in this session
    \* observations
    events,        \* records handed to updateStatusArray and diagnostics (script.js)
    hist,          \* what happened in the current session (history)
    nchunks,       \* chunks the device has delivered
    nfaults,       \* end-of-stream / read errors the transport has signalled
    nconnects,     \* clicks on Connect
    \* the reassembly harness
    stream,        \* the bytes the device sends, in order
    pos,           \* how many bytes of stream have been read
    oneByOne,      \* every chunk read so far was a single byte
    buffer0,       \* readLoop's local `buffer` (variant part_000)
    events0,       \* lines appended by appendTextLine in readLoop (variant part_000)
    \* the consumer of the records and the functions called on their own
    statusArray,   \* the global statusArray (script.js): entries with _expanded
    received,      \* the records passed to updateStatusArray so far
    input,         \* the arguments of a call of computeChecksum or parseMessage
    output         \* what the call returned, <<>> before it

sessionVars ==
    <<port, reader, writer, keepReading, textBuffer, connectBtn, disconnectBtn,
      cpc, dpc, rpc, tlock, acc, timeLeft, portOpen, gone, written, hist,
      nchunks, nfaults, nconnects>>
harnessVars == <<stream, pos, oneByOne, buffer0, events0>>
libVars == <<statusArray, received, input, output>>
vars == <<sessionVars, buffer, events, harnessVars, libVars>>

----------------------------------------------------------------------------
(* Array helpers of JavaScript, on sequences *)

Min(a, b) == IF a < b THEN a ELSE b
Max(a, b) == IF a > b THEN a ELSE b

\* Array.prototype.indexOf: 0-based index of the first occurrence, or -1
indexOf(arr, b) ==
    IF \E i \in 1..Len(arr) : arr[i] = b
    THEN (CHOOSE i \in 1..Len(arr) : arr[i] = b /\ \A j \in 1..(i - 1) : arr[j] # b) - 1
    ELSE -1

\* Array.prototype.slice(from, to) for 0 <= from: elements from..to-1, clamped
slice(arr, from, to) == SubSeq(arr, from + 1, Min(to, Len(arr)))

\* Array.prototype.splice(0, n): what is left of the array
splice0(arr, n) == SubSeq(arr, Max(n, 0) + 1, Len(arr))

Rep(b, n) == [i \in 1..n |-> b]

SENTINEL == 255
STRUCT_SIZE == 40
TRIM_LIMIT == 1024
TRIM_KEEP == 512

----------------------------------------------------------------------------
(* computeChecksum: the running sum, masked to 16 bits after every byte *)

\* the loop body without the mask
addByte_NoMask(sum, b) == sum + b

\* the loop body with `% 0xFFFF` in place of `& 0xFFFF`
addByte_ModFFFF(sum, b) == (sum + b) % 65535

\* the loop body: sum = (sum + arr[i]) & 0xFFFF
addByte(sum, b) == (sum + b) % 65536

RECURSIVE checksumFrom(_, _, _)
checksumFrom(arr, i, sum) ==
    IF i >= Len(arr) THEN sum
    ELSE checksumFrom(arr, i + 1, addByte(sum, arr[i + 1]))

computeChecksum(bytes) == checksumFrom(bytes, 0, 0)

----------------------------------------------------------------------------
(* DataView accessors, little-endian, on a byte sequence dv; off is 0-based *)

getUint8(dv, off) == dv[off + 1]

getUint16(dv, off) == dv[off + 1] + 256 * dv[off + 2]

getInt16(dv, off) ==
    LET u == getUint16(dv, off) IN IF u >= 32768 THEN u - 65536 ELSE u

\* An IEEE-754 binary32 as sign, biased exponent and mantissa bytes (most
\* significant first); every NaN bit pattern reads as the one value NaN.
getFloat32(dv, off) ==
    LET b0 == dv[off + 1]
        b1 == dv[off + 2]
        b2 == dv[off + 3]
        b3 == dv[off + 4]
        exp == (b3 % 128) * 2 + (b2 \div 128)
        mant == <<b2 % 128, b1, b0>>
    IN  IF exp = 255 /\ mant # <<0, 0, 0>>
        THEN [nan |-> TRUE, sign |-> 0, exp |-> 255, mant |-> <<>>]
        ELSE [nan |-> FALSE, sign |-> b3 \div 128, exp |-> exp, mant |-> mant]

\* An IEEE-754 binary64, likewise
getFloat64(dv, off) ==
    LET b(k) == dv[off + 1 + k]
        exp == (b(7) % 128) * 16 + (b(6) \div 16)
        mant == <<b(6) % 16, b(5), b(4), b(3), b(2), b(1), b(0)>>
    IN  IF exp = 2047 /\ mant # <<0, 0, 0, 0, 0, 0, 0>>
        THEN [nan |-> TRUE, sign |-> 0, exp |-> 2047, mant |-> <<>>]
        ELSE [nan |-> FALSE, sign |-> b(7) \div 128, exp |-> exp, mant |-> mant]

\* x / 1000.0 as the exact quotient num/den
Quot(num, den) == [num |-> num, den |-> den]

\* parseMessage with the length test off by one: exactly 40 bytes are rejected
parseMessage_OffByOne(buf, startOffset) ==
    IF Len(buf) <= startOffset + STRUCT_SIZE THEN <<>>
    ELSE << [ id |-> getUint16(buf, startOffset) ] >>

\* parseMessage without `off += 2`: every field after time_offset_ms is read
\* two bytes early
parseMessage_NoPadding(buf, startOffset) ==
    IF Len(buf) < startOffset + STRUCT_SIZE THEN <<>>
    ELSE LET dv == SubSeq(buf, startOffset + 1, startOffset + STRUCT_SIZE)
         IN  << [ id              |-> getUint16(dv, 0),
                  sync_id         |-> getUint16(dv, 2),
                  time_offset_ms  |-> getInt16(dv, 4),
                  latitude        |-> getFloat64(dv, 6),
                  longitude       |-> getFloat64(dv, 14),
                  heading         |-> getFloat32(dv, 22),
                  cov_pos         |-> getFloat32(dv, 26),
                  speed_x         |-> Quot(getInt16(dv, 30), 1000),
                  speed_y         |-> Quot(getInt16(dv, 32), 1000),
                  rot_speed       |-> Quot(getInt16(dv, 34), 1000),
                  drive_mode      |-> getUint8(dv, 36),
                  aux_data_status |-> getUint8(dv, 37) ] >>

\* parseMessage reading time_offset_ms as 32 bits, the padding included
parseMessage_TimeAsInt32(buf, startOffset) ==
    IF Len(buf) < startOffset + STRUCT_SIZE THEN <<>>
    ELSE LET dv == SubSeq(buf, startOffset + 1, startOffset + STRUCT_SIZE)
         IN  << [ id              |-> getUint16(dv, 0),
                  sync_id         |-> getUint16(dv, 2),
                  time_offset_ms  |-> getUint16(dv, 4) + 65536 * getInt16(dv, 6),
                  latitude        |-> getFloat64(dv, 8),
                  longitude       |-> getFloat64(dv, 16),
                  heading         |-> getFloat32(dv, 24),
                  cov_pos         |-> getFloat32(dv, 28),
                  speed_x         |-> Quot(getInt16(dv, 32), 1000),
                  speed_y         |-> Quot(getInt16(dv, 34), 1000),
                  rot_speed       |-> Quot(getInt16(dv, 36), 1000),
                  drive_mode      |-> getUint8(dv, 38),
                  aux_data_status |-> getUint8(dv, 39) ] >>

\* parseMessage refusing a struct whose latitude is not a number
parseMessage_RejectsNaN(buf, startOffset) ==
    IF Len(buf) < startOffset + STRUCT_SIZE THEN <<>>
    ELSE LET dv == SubSeq(buf, startOffset + 1, startOffset + STRUCT_SIZE)
         IN  IF getFloat64(dv, 8).nan THEN <<>>
             ELSE << [ id              |-> getUint16(dv, 0),
                       sync_id         |-> getUint16(dv, 2),
                       time_offset_ms  |-> getInt16(dv, 4),
                       latitude        |-> getFloat64(dv, 8),
                       longitude       |-> getFloat64(dv, 16),
                       heading         |-> getFloat32(dv, 24),
                       cov_pos         |-> getFloat32(dv, 28),
                       speed_x         |-> Quot(getInt16(dv, 32), 1000),
                       speed_y         |-> Quot(getInt16(dv, 34), 1000),
                       rot_speed       |-> Quot(getInt16(dv, 36), 1000),
                       drive_mode      |-> getUint8(dv, 38),
                       aux_data_status |-> getUint8(dv, 39) ] >>

(* parseMessage of script.js (and part_001): <<>> stands for null, <<r>> for *)
(* the returned object r.                                                    *)
parseMessage(buf, startOffset) ==
    IF Len(buf) < startOffset + STRUCT_SIZE THEN <<>>
    ELSE LET dv == SubSeq(buf, startOffset + 1, startOffset + STRUCT_SIZE)
         IN  << [ id              |-> getUint16(dv, 0),
                  sync_id         |-> getUint16(dv, 2),
                  time_offset_ms  |-> getInt16(dv, 4),
                  latitude        |-> getFloat64(dv, 8),
                  longitude       |-> getFloat64(dv, 16),
                  heading         |-> getFloat32(dv, 24),
                  cov_pos         |-> getFloat32(dv, 28),
                  speed_x         |-> Quot(getInt16(dv, 32), 1000),
                  speed_y         |-> Quot(getInt16(dv, 34), 1000),
                  rot_speed       |-> Quot(getInt16(dv, 36), 1000),
                  drive_mode      |-> getUint8(dv, 38),
                  aux_data_status |-> getUint8(dv, 39) ] >>

(* parseMessage of variant part_000: the speeds are not divided *)
parseMessage0(buf, startOffset) ==
    IF Len(buf) < startOffset + STRUCT_SIZE THEN <<>>
    ELSE LET dv == SubSeq(buf, startOffset + 1, startOffset + STRUCT_SIZE)
         IN  << [ id              |-> getUint16(dv, 0),
                  sync_id         |-> getUint16(dv, 2),
                  time_offset_ms  |-> getInt16(dv, 4),
                  latitude        |-> getFloat64(dv, 8),
                  longitude       |-> getFloat64(dv, 16),
                  heading         |-> getFloat32(dv, 24),
                  cov_pos         |-> getFloat32(dv, 28),
                  speed_x         |-> Quot(getInt16(dv, 32), 1),
                  speed_y         |-> Quot(getInt16(dv, 34), 1),
                  rot_speed       |-> Quot(getInt16(dv, 36), 1),
                  drive_mode      |-> getUint8(dv, 38),
                  aux_data_status |-> getUint8(dv, 39) ] >>

----------------------------------------------------------------------------
(* readLoop: what one complete message makes the loop emit.  An event is   *)
(* [kind, frame, status]: kind "record" is the call updateStatusArray      *)
(* (status), "tooShort" the warning 'parseMessage failed', "checksum" the  *)
(* warning 'Checksum mismatch'; frame is the message's len payload bytes.  *)

Event(kind, frame, status) == [kind |-> kind, frame |-> frame, status |-> status]

\* messageEvents comparing only the low checksum byte
messageEvents_LowByteOnly(msgData) ==
    IF Len(msgData) >= 3 /\ msgData[1] = 1
    THEN LET payloadSegment == slice(msgData, 0, Len(msgData) - 2)
             chkLow == msgData[Len(msgData)]
             actual == computeChecksum(payloadSegment)
         IN  IF actual % 256 = chkLow
             THEN LET status == parseMessage(slice(payloadSegment, 1, Len(payloadSegment)), 0)
                  IN  IF status # <<>>
                      THEN <<Event("record", msgData, status)>>
                      ELSE <<Event("tooShort", msgData, <<>>)>>
             ELSE <<Event("checksum", msgData, <<>>)>>
    ELSE <<>>

\* messageEvents that drops a message with a wrong checksum without a warning
messageEvents_SilentMismatch(msgData) ==
    IF Len(msgData) >= 3 /\ msgData[1] = 1
    THEN LET payloadSegment == slice(msgData, 0, Len(msgData) - 2)
             expected == msgData[Len(msgData) - 1] * 256 + msgData[Len(msgData)]
         IN  IF computeChecksum(payloadSegment) = expected
             THEN LET status == parseMessage(slice(payloadSegment, 1, Len(payloadSegment)), 0)
                  IN  IF status # <<>>
                      THEN <<Event("record", msgData, status)>>
                      ELSE <<Event("tooShort", msgData, <<>>)>>
             ELSE <<>>
    ELSE <<>>

\* messageEvents without the test of the command byte
messageEvents_AnyCommand(msgData) ==
    IF Len(msgData) >= 3
    THEN LET payloadSegment == slice(msgData, 0, Len(msgData) - 2)
             expected == msgData[Len(msgData) - 1] * 256 + msgData[Len(msgData)]
         IN  IF computeChecksum(payloadSegment) = expected
             THEN LET status == parseMessage(slice(payloadSegment, 1, Len(payloadSegment)), 0)
                  IN  IF status # <<>>
                      THEN <<Event("record", msgData, status)>>
                      ELSE <<Event("tooShort", msgData, <<>>)>>
             ELSE <<Event("checksum", msgData, <<>>)>>
    ELSE <<>>

\* script.js: msgData is buffer.slice(startIdx + 2, startIdx + 2 + len)
messageEvents(msgData) ==
    IF Len(msgData) >= 3 /\ msgData[1] = 1
    THEN LET payloadSegment == slice(msgData, 0, Len(msgData) - 2)
             chkHigh == msgData[Len(msgData) - 1]
             chkLow == msgData[Len(msgData)]
             expected == chkHigh * 256 + chkLow
             actual == computeChecksum(payloadSegment)
         IN  IF actual = expected
             THEN LET structBytes == slice(payloadSegment, 1, Len(payloadSegment))
                      status == parseMessage(structBytes, 0)
                  IN  IF status # <<>>
                      THEN <<Event("record", msgData, status)>>
                      ELSE <<Event("tooShort", msgData, <<>>)>>
             ELSE <<Event("checksum", msgData, <<>>)>>
    ELSE <<>>

\* part_000: the slices are taken from the buffer itself
messageEvents0(buf, startIdx, len) ==
    LET dataPart == slice(buf, startIdx + 2, startIdx + 2 + len - 2)
        msgData == slice(buf, startIdx + 2, startIdx + 2 + len)
    IN  IF len >= 3 /\ buf[startIdx + 3] = 1
        THEN LET payload == slice(buf, startIdx + 3, startIdx + 3 + len - 2)
                 chkHigh == buf[startIdx + 2 + len - 2 + 1]
                 chkLow == buf[startIdx + 2 + len - 1 + 1]
                 expected == chkHigh * 256 + chkLow
                 actual == computeChecksum(dataPart)
             IN  IF actual = expected
                 THEN LET status == parseMessage0(payload, 0)
                      IN  IF status # <<>>
                          THEN <<Event("record", msgData, status)>>
                          ELSE <<Event("tooShort", msgData, <<>>)>>
                 ELSE <<Event("checksum", msgData, <<>>)>>
        ELSE <<>>

\* parseLoop that gives up on a message that is not complete yet: it drops
\* the bytes up to its sentinel and goes on
RECURSIVE parseLoop_DropPartial(_, _)
parseLoop_DropPartial(buf, ev) ==
    LET startIdx == indexOf(buf, SENTINEL) IN
    IF startIdx = -1
    THEN [buffer |-> IF Len(buf) > TRIM_LIMIT
                     THEN splice0(buf, Len(buf) - TRIM_KEEP) ELSE buf,
          events |-> ev]
    ELSE IF Len(buf) < startIdx + 2
    THEN [buffer |-> buf, events |-> ev]
    ELSE LET len == buf[startIdx + 2]
             totalNeeded == startIdx + 2 + len
         IN  IF Len(buf) < totalNeeded
             THEN parseLoop_DropPartial(splice0(buf, startIdx + 1), ev)
             ELSE parseLoop_DropPartial(splice0(buf, totalNeeded),
                            ev \o messageEvents(slice(buf, startIdx + 2, startIdx + 2 + len)))

\* parseLoop that trims a sentinel-free buffer only above twice the limit
RECURSIVE parseLoop_LateTrim(_, _)
parseLoop_LateTrim(buf, ev) ==
    LET startIdx == indexOf(buf, SENTINEL) IN
    IF startIdx = -1
    THEN [buffer |-> IF Len(buf) > 2 * TRIM_LIMIT
                     THEN splice0(buf, Len(buf) - TRIM_KEEP) ELSE buf,
          events |-> ev]
    ELSE IF Len(buf) < startIdx + 2
    THEN [buffer |-> buf, events |-> ev]
    ELSE LET len == buf[startIdx + 2]
             totalNeeded == startIdx + 2 + len
         IN  IF Len(buf) < totalNeeded
             THEN [buffer |-> buf, events |-> ev]
             ELSE parseLoop_LateTrim(splice0(buf, totalNeeded),
                            ev \o messageEvents(slice(buf, startIdx + 2, startIdx + 2 + len)))

\* parseLoop without the wait for the full message
RECURSIVE parseLoop_NoWait(_, _)
parseLoop_NoWait(buf, ev) ==
    LET startIdx == indexOf(buf, SENTINEL) IN
    IF startIdx = -1
    THEN [buffer |-> IF Len(buf) > TRIM_LIMIT
                     THEN splice0(buf, Len(buf) - TRIM_KEEP) ELSE buf,
          events |-> ev]
    ELSE IF Len(buf) < startIdx + 2
    THEN [buffer |-> buf, events |-> ev]
    ELSE LET len == buf[startIdx + 2]
             totalNeeded == startIdx + 2 + len
         IN  parseLoop_NoWait(splice0(buf, totalNeeded),
                            ev \o messageEvents(slice(buf, startIdx + 2, startIdx + 2 + len)))

(* readLoop's inner `while (true)`: parse messages while possible.  The    *)
(* result is the buffer and the events when the loop breaks.               *)
\* the inner loop dropping only up to the sentinel of a message it rejects
RECURSIVE parseLoop_ResyncAfterSentinel(_, _)
parseLoop_ResyncAfterSentinel(buf, ev) ==
    LET startIdx == indexOf(buf, SENTINEL) IN
    IF startIdx = -1
    THEN [buffer |-> IF Len(buf) > TRIM_LIMIT
                     THEN splice0(buf, Len(buf) - TRIM_KEEP) ELSE buf,
          events |-> ev]
    ELSE IF Len(buf) < startIdx + 2
    THEN [buffer |-> buf, events |-> ev]
    ELSE LET len == buf[startIdx + 2]
             totalNeeded == startIdx + 2 + len
             emitted == messageEvents(slice(buf, startIdx + 2, startIdx + 2 + len))
         IN  IF Len(buf) < totalNeeded
             THEN [buffer |-> buf, events |-> ev]
             ELSE IF emitted # <<>> /\ emitted[1].kind = "record"
             THEN parseLoop_ResyncAfterSentinel(splice0(buf, totalNeeded), ev \o emitted)
             ELSE parseLoop_ResyncAfterSentinel(splice0(buf, startIdx + 1), ev \o emitted)

\* the inner loop leaving after the first message it has removed
parseLoop_OneFramePerChunk(buf, ev) ==
    LET startIdx == indexOf(buf, SENTINEL) IN
    IF startIdx = -1
    THEN [buffer |-> IF Len(buf) > TRIM_LIMIT
                     THEN splice0(buf, Len(buf) - TRIM_KEEP) ELSE buf,
          events |-> ev]
    ELSE IF Len(buf) < startIdx + 2
    THEN [buffer |-> buf, events |-> ev]
    ELSE LET len == buf[startIdx + 2]
             totalNeeded == startIdx + 2 + len
         IN  IF Len(buf) < totalNeeded
             THEN [buffer |-> buf, events |-> ev]
             ELSE [buffer |-> splice0(buf, totalNeeded),
                   events |-> ev \o messageEvents(slice(buf, startIdx + 2, startIdx + 2 + len))]

\* the inner loop with the overflow trim applied also while a message is awaited
RECURSIVE parseLoop_TrimsWhileWaiting(_, _)
parseLoop_TrimsWhileWaiting(buf, ev) ==
    LET startIdx == indexOf(buf, SENTINEL)
        trimmed == IF Len(buf) > TRIM_LIMIT
                   THEN splice0(buf, Len(buf) - TRIM_KEEP) ELSE buf
    IN
    IF startIdx = -1
    THEN [buffer |-> trimmed, events |-> ev]
    ELSE IF Len(buf) < startIdx + 2
    THEN [buffer |-> trimmed, events |-> ev]
    ELSE LET len == buf[startIdx + 2]
             totalNeeded == startIdx + 2 + len
         IN  IF Len(buf) < totalNeeded
             THEN [buffer |-> trimmed, events |-> ev]
             ELSE parseLoop_TrimsWhileWaiting(splice0(buf, totalNeeded),
                            ev \o messageEvents(slice(buf, startIdx + 2, startIdx + 2 + len)))

\* the inner loop without the overflow trim
RECURSIVE parseLoop_NeverTrims(_, _)
parseLoop_NeverTrims(buf, ev) ==
    LET startIdx == indexOf(buf, SENTINEL) IN
    IF startIdx = -1
    THEN [buffer |-> buf, events |-> ev]
    ELSE IF Len(buf) < startIdx + 2
    THEN [buffer |-> buf, events |-> ev]
    ELSE LET len == buf[startIdx + 2]
             totalNeeded == startIdx + 2 + len
         IN  IF Len(buf) < totalNeeded
             THEN [buffer |-> buf, events |-> ev]
             ELSE parseLoop_NeverTrims(splice0(buf, totalNeeded),
                            ev \o messageEvents(slice(buf, startIdx + 2, startIdx + 2 + len)))

RECURSIVE parseLoop(_, _)
parseLoop(buf, ev) ==
    LET startIdx == indexOf(buf, SENTINEL) IN
    IF startIdx = -1
    THEN [buffer |-> IF Len(buf) > TRIM_LIMIT
                     THEN splice0(buf, Len(buf) - TRIM_KEEP) ELSE buf,
          events |-> ev]
    ELSE IF Len(buf) < startIdx + 2
    THEN [buffer |-> buf, events |-> ev]
    ELSE LET len == buf[startIdx + 2]
             totalNeeded == startIdx + 2 + len
         IN  IF Len(buf) < totalNeeded
             THEN [buffer |-> buf, events |-> ev]
             ELSE parseLoop(splice0(buf, totalNeeded),
                            ev \o messageEvents(slice(buf, startIdx + 2, startIdx + 2 + len)))

RECURSIVE parseLoop0(_, _)
parseLoop0(buf, ev) ==
    LET startIdx == indexOf(buf, SENTINEL) IN
    IF startIdx = -1
    THEN [buffer |-> IF Len(buf) > TRIM_LIMIT
                     THEN splice0(buf, Len(buf) - TRIM_KEEP) ELSE buf,
          events |-> ev]
    ELSE IF Len(buf) < startIdx + 2
    THEN [buffer |-> buf, events |-> ev]
    ELSE LET len == buf[startIdx + 2]
             totalNeeded == startIdx + 2 + len
         IN  IF Len(buf) < totalNeeded
             THEN [buffer |-> buf, events |-> ev]
             ELSE parseLoop0(splice0(buf, totalNeeded),
                             ev \o messageEvents0(buf, startIdx, len))

\* one iteration of the inner loop with a length byte that counts the two
\* bytes before the command
iteration_LenCountsHeader(buf) ==
    LET startIdx == indexOf(buf, SENTINEL) IN
    IF startIdx = -1
    THEN [stop |-> TRUE,
          buffer |-> IF Len(buf) > TRIM_LIMIT
                     THEN splice0(buf, Len(buf) - TRIM_KEEP) ELSE buf,
          events |-> <<>>]
    ELSE IF Len(buf) < startIdx + 2
    THEN [stop |-> TRUE, buffer |-> buf, events |-> <<>>]
    ELSE LET len == buf[startIdx + 2]
             totalNeeded == startIdx + len
         IN  IF Len(buf) < totalNeeded
             THEN [stop |-> TRUE, buffer |-> buf, events |-> <<>>]
             ELSE [stop |-> FALSE, buffer |-> splice0(buf, totalNeeded),
                   events |-> messageEvents(slice(buf, startIdx + 2, startIdx + 2 + len))]

\* one iteration of the inner loop `while (true) { ... }`: stop is a `break`
iteration(buf) ==
    LET startIdx == indexOf(buf, SENTINEL) IN
    IF startIdx = -1
    THEN [stop |-> TRUE,
          buffer |-> IF Len(buf) > TRIM_LIMIT
                     THEN splice0(buf, Len(buf) - TRIM_KEEP) ELSE buf,
          events |-> <<>>]
    ELSE IF Len(buf) < startIdx + 2
    THEN [stop |-> TRUE, buffer |-> buf, events |-> <<>>]
    ELSE LET len == buf[startIdx + 2]
             totalNeeded == startIdx + 2 + len
         IN  IF Len(buf) < totalNeeded
             THEN [stop |-> TRUE, buffer |-> buf, events |-> <<>>]
             ELSE [stop |-> FALSE, buffer |-> splice0(buf, totalNeeded),
                   events |-> messageEvents(slice(buf, startIdx + 2, startIdx + 2 + len))]

\* One turn of readLoop's outer loop on a non-empty chunk `value`
readChunk(buf, value) == parseLoop(buf \o value, <<>>)
readChunk0(buf, value) == parseLoop0(buf \o value, <<>>)

----------------------------------------------------------------------------
(* Byte streams for the reassembly harness.  A wire frame is               *)
(* 0xFF, len, command, data, checksum_hi, checksum_lo with len = 3 + |data|*)

RECURSIVE SumBytes(_)
SumBytes(s) == IF s = <<>> THEN 0 ELSE s[1] + SumBytes(Tail(s))

WireFrame(cmd, data) ==
    LET cs == SumBytes(<<cmd>> \o data) % 65536
    IN  <<SENTINEL, Len(data) + 3, cmd>> \o data \o <<cs \div 256, cs % 256>>

\* the byte b with bit k (0..7) inverted
FlipBit(b, k) == IF (b \div (2 ^ k)) % 2 = 1 THEN b - 2 ^ k ELSE b + 2 ^ k

\* frame f with bit k of its checksum pair inverted: 0..7 low byte, 8..15 high byte
FlipChecksumBit(f, k) ==
    LET i == IF k < 8 THEN Len(f) ELSE Len(f) - 1
    IN  [f EXCEPT ![i] = FlipBit(f[i], k % 8)]

\* 40 struct bytes: id 7, sync_id 3, time_offset_ms -2, speed_x raw 1500, drive_mode 2, aux 1
DataA == <<7, 0, 3, 0, 254, 255, 9, 9>> \o Rep(0, 24) \o <<220, 5, 0, 0, 0, 0, 2, 1>>
\* 40 struct bytes without any 0xFF: id 8
DataB == <<8, 0>> \o Rep(0, 36) \o <<1, 0>>
\* 39 bytes: one short of a struct
Data39 == <<9>> \o Rep(0, 38)

FrameA == WireFrame(1, DataA)
FrameB == WireFrame(1, DataB)
Frame39 == WireFrame(1, Data39)
FrameEmpty == WireFrame(1, <<>>)
FrameCmd2 == WireFrame(2, <<>>)
FrameBad == FlipChecksumBit(FrameB, 0)

Segments ==
    { <<0>>, <<SENTINEL>>, FrameA, FrameB, Frame39, FrameEmpty, FrameCmd2 }

MaxSegs == 2

RECURSIVE Concats(_)
Concats(n) ==
    IF n = 0 THEN { <<>> }
    ELSE LET shorter == Concats(n - 1)
         IN  shorter \cup { s \o g : s \in shorter, g \in Segments }

FlipStreams ==
    { FlipChecksumBit(FrameB, k) \o t : k \in 0..15, t \in { <<>>, FrameA } }

\* sentinel-free noise just below and just above the trim limit, then a frame
NoiseStreams == { Rep(0, n) \o FrameB : n \in { TRIM_LIMIT - 4, TRIM_LIMIT + 6 } }

\* a frame whose length byte is below 3, then a frame
ShortLenStreams ==
    { <<SENTINEL, 0>> \o FrameEmpty, <<SENTINEL, 0, 0>> \o FrameA,
      <<SENTINEL, 2, 1, 0>> \o FrameB, FrameBad \o FrameBad }

\* 40 struct bytes: id 10, drive_mode 255, aux 5
DataC == <<10, 0>> \o Rep(0, 36) \o <<255, 5>>
FrameC == WireFrame(1, DataC)

\* a frame with 0xFF in its data, then a frame; alone, after a noise byte, and
\* after the two noise bytes FF 05
EmbeddedStreams ==
    { n \o f \o FrameB : n \in { <<>>, <<0>>, <<SENTINEL, 5>> }, f \in { FrameA, FrameC } }

Streams ==
    Concats(MaxSegs) \cup FlipStreams \cup NoiseStreams \cup ShortLenStreams
        \cup EmbeddedStreams

ReadSizes(rest) == { n \in {1, 2, 7, 45, rest} : n >= 1 /\ n <= rest }

----------------------------------------------------------------------------
(* Text of the handshake.  A decoded string is the sequence of its code    *)
(* points.                                                                 *)

\* "#NOT_INITIALIZED"
NOT_INITIALIZED == <<35, 78, 79, 84, 95, 73, 78, 73, 84, 73, 65, 76, 73, 90, 69, 68>>
\* "#OK"
OK == <<35, 79, 75>>

DETECT_MS == 1000
ACK_MS == 200
TEXT_LIMIT == 1000
TEXT_KEEP == 500
ACC_LIMIT == 20000
ACC_KEEP == 4000

\* textDecoder.decode(value, {stream: true}) on bytes that are ASCII or 0xFF:
\* an ASCII byte is its character, the byte 0xFF (never valid UTF-8) is U+FFFD
decode(value) == [i \in 1..Len(value) |-> IF value[i] < 128 THEN value[i] ELSE 65533]

\* String.prototype.includes
includes(text, sub) ==
    \E i \in 0..(Len(text) - Len(sub)) : SubSeq(text, i + 1, i + Len(sub)) = sub

\* the accumulator emptied instead of cut to its tail
sliceLast_DropsAll(text, n) == <<>>

\* the cut taken from the front of the text instead of its end
sliceLast_KeepsHead(text, n) == SubSeq(text, 1, Min(Len(text), 3 * n))

\* String.prototype.slice(-n)
sliceLast(text, n) == SubSeq(text, Max(Len(text) - n, 0) + 1, Len(text))

----------------------------------------------------------------------------
(* The session: connect(), readUntil(), readLoop() and disconnect() as     *)
(* tasks of the page's event loop.  A step is what runs between two        *)
(* suspensions: from the completion of the awaited operation to the next   *)
(* await of an operation of the port (microtask continuations run within   *)
(* the step).  The operators below take the state as a record s and give   *)
(* the state at the next suspension.                                       *)
(*                                                                         *)
(* The transport follows the Web Serial and Streams standards: a stream    *)
(* has one reader lock; getReader() on a locked stream throws; cancel() of *)
(* the locked reader resolves a pending read with done; cancel() of a      *)
(* released reader rejects; port.close() rejects while the readable or the *)
(* writable is locked; a read that rejects without the device being lost   *)
(* leaves a fresh readable.                                                *)
(*                                                                         *)
(* Extent of the model: one serial port; requestPort() resolves at the     *)
(* click; Connect is clicked when no connect() or disconnect() is running; *)
(* at most two clicks on Disconnect are running at a time; time advances   *)
(* in steps of TickMs while connect() waits.                               *)

\* the running invocations of disconnect(): two clicks on Disconnect (the button
\* stays enabled until a disconnect() reaches its `finally`), and connect()'s own
D == {"click1", "click2", "conn"}

HistInit ==
    [ detected    |-> "none",   \* #NOT_INITIALIZED seen: "intime", "late" (after the window)
      ok1         |-> "none",   \* #OK seen by the first readUntil: "intime" or "late"
      ok2         |-> "none",   \* #OK seen by the second readUntil
      streamed    |-> FALSE,    \* readLoop was started
      hsTeardown  |-> FALSE,    \* the handshake ran disconnect()
      userDiscHs  |-> FALSE,    \* the user clicked Disconnect during detection or an ack wait
      okDone      |-> FALSE,    \* the second #OK completed the handshake
      afterOk     |-> <<>>,     \* bytes delivered after that #OK
      fed         |-> <<>>,     \* bytes appended to readLoop's buffer
      discStream  |-> [d \in D |-> FALSE],  \* disconnect d was invoked while readLoop awaited a chunk
      down        |-> FALSE,    \* such a disconnect has completed
      fault       |-> "none",   \* where the transport signalled its end or an error: "det", "ack", "loop"
      ended       |-> FALSE,    \* a disconnect() has run to its end in this session
      left        |-> <<>> ]    \* what the buffer of the readLoop before held at the click on Connect

Cur ==
    [ port |-> port, reader |-> reader, writer |-> writer, keepReading |-> keepReading,
      textBuffer |-> textBuffer, connectBtn |-> connectBtn, disconnectBtn |-> disconnectBtn,
      cpc |-> cpc, dpc |-> dpc, rpc |-> rpc, tlock |-> tlock, acc |-> acc,
      timeLeft |-> timeLeft, buffer |-> buffer, portOpen |-> portOpen, gone |-> gone,
      written |-> written, events |-> events, hist |-> hist ]

\* the session's variables take the values of record s
Sets(s) ==
    /\ port' = s.port /\ reader' = s.reader /\ writer' = s.writer
    /\ keepReading' = s.keepReading /\ textBuffer' = s.textBuffer
    /\ connectBtn' = s.connectBtn /\ disconnectBtn' = s.disconnectBtn
    /\ cpc' = s.cpc /\ dpc' = s.dpc /\ rpc' = s.rpc /\ tlock' = s.tlock /\ acc' = s.acc
    /\ timeLeft' = s.timeLeft /\ buffer' = s.buffer /\ portOpen' = s.portOpen
    /\ gone' = s.gone /\ written' = s.written /\ events' = s.events /\ hist' = s.hist

Becomes(s) == Sets(s) /\ UNCHANGED <<harnessVars, libVars>>

\* the port's readable stream is locked to some reader
readableLocked(s) == s.tlock # "none" \/ s.reader = "locked"

\* port.readable evaluates to a stream (port is an opened port whose device is there)
hasReadable(s) == s.port # "null" /\ s.portOpen /\ ~s.gone

(* disconnect(): `finally` *)
discFinally(s, d) ==
    [s EXCEPT !.connectBtn = FALSE, !.disconnectBtn = TRUE,
              !.dpc = [@ EXCEPT ![d] = "idle"],
              !.cpc = IF d = "conn" THEN "idle" ELSE @,
              !.hist = [@ EXCEPT !.down = @ \/ s.hist.discStream[d],
                                 !.ended = TRUE,
                                 !.discStream = [@ EXCEPT ![d] = FALSE]]]

(* disconnect() without its `if (port) { ... }` block *)
discPort_NoClose(s, d) == discFinally(s, d)

(* disconnect(): `if (port) { await port.close(); ...`.  close() rejects on a *)
(* port that is not opened and on one whose readable or writable is locked.  *)
discPort(s, d) ==
    IF s.port = "null" THEN discFinally(s, d)
    ELSE IF ~s.portOpen \/ readableLocked(s) \/ s.writer # "null"
    THEN discFinally(s, d)
    ELSE [s EXCEPT !.portOpen = FALSE, !.dpc = [@ EXCEPT ![d] = "pclose"]]

(* disconnect(): `if (writer) { try { await writer.close(); } ...` *)
discWriter(s, d) ==
    IF s.writer = "locked"
    THEN [s EXCEPT !.writer = "closing", !.dpc = [@ EXCEPT ![d] = "wclose"]]
    ELSE IF s.writer = "closing"
    THEN discPort([s EXCEPT !.writer = "null"], d)
    ELSE discPort(s, d)

(* disconnect() from its entry.  cancel() of the locked reader closes the   *)
(* stream, which resolves readLoop's pending read with done; cancel() of a  *)
(* released reader rejects.                                                 *)
discStart(s0, d) ==
    LET s == [s0 EXCEPT !.keepReading = FALSE,
                        !.hist = [@ EXCEPT !.discStream =
                                     [@ EXCEPT ![d] = (s0.rpc = "reading")]]]
    IN  IF s.reader = "locked"
        THEN [s EXCEPT !.rpc = IF @ = "reading" THEN "cancelled" ELSE @,
                       !.dpc = [@ EXCEPT ![d] = "cancel"]]
        ELSE IF s.reader = "released"
        THEN discFinally(s, d)
        ELSE discWriter(s, d)

(* connect(): `try { await disconnect(); } catch (_) { }` then return *)
connCatch(s) == discStart([s EXCEPT !.cpc = "disc"], "conn")

(* connect(): the catch of a failed readUntil *)
hsFail(s) == connCatch([s EXCEPT !.hist = [@ EXCEPT !.hsTeardown = TRUE]])

(* connect(): step 5 when the lock of the temporary reader is still held:   *)
(* getReader() throws and connect() ends in its catch                       *)
startStreaming_LockHeld(s0) == connCatch([s0 EXCEPT !.keepReading = TRUE])

(* connect(): step 5 with a readLoop whose `buffer` outlives the call *)
startStreaming_KeepsBuffer(s0) ==
    LET s == [s0 EXCEPT !.keepReading = TRUE]
    IN  IF ~hasReadable(s) \/ readableLocked(s)
        THEN connCatch(s)
        ELSE [s EXCEPT !.reader = "locked", !.rpc = "reading",
                       !.cpc = "idle",
                       !.hist = [@ EXCEPT !.streamed = TRUE]]

(* connect(): step 5, `keepReading = true; reader = port.readable.getReader(); *)
(* readLoop();` up to readLoop's first reader.read()                           *)
startStreaming(s0) ==
    LET s == [s0 EXCEPT !.keepReading = TRUE]
    IN  IF ~hasReadable(s) \/ readableLocked(s)
        THEN connCatch(s)
        ELSE [s EXCEPT !.reader = "locked", !.buffer = <<>>, !.rpc = "reading",
                       !.cpc = "idle",
                       !.hist = [@ EXCEPT !.streamed = TRUE]]

(* readUntil('#OK', 200) up to its first r.read() *)
readUntil(s, which) ==
    IF ~hasReadable(s) \/ readableLocked(s)
    THEN hsFail(s)
    ELSE [s EXCEPT !.tlock = "until", !.acc = <<>>, !.timeLeft = ACK_MS, !.cpc = which]

(* connect(): `if (!initialized) { if (port.writable) { writer = ...; await *)
(* writeString(CONFIG_STR)`                                                 *)
sendConfig(s) ==
    IF s.port = "null" THEN connCatch(s)
    ELSE IF ~s.portOpen \/ s.gone THEN startStreaming(s)
    ELSE IF s.writer # "null" THEN connCatch(s)
    ELSE [s EXCEPT !.writer = "locked", !.written = Append(@, "CONFIG"), !.cpc = "cfg"]

(* connect(): `await writeString(RUN_STR)`; without a usable writer nothing *)
(* is written and connect() goes on to the second readUntil                 *)
sendRun(s) ==
    IF s.writer = "locked"
    THEN [s EXCEPT !.written = Append(@, "RUN"), !.cpc = "run"]
    ELSE readUntil(s, "ack2")

(* connect(): CONFIG sent although the marker was not seen *)
detectionExit_SendsConfig(s) == sendConfig([s EXCEPT !.tlock = "none"])

(* connect(): the detection loop without its `finally { tempReader.releaseLock() }` *)
detectionExit_KeepsLock(s) == startStreaming(s)

(* connect(): the detection loop has ended without the marker *)
detectionExit(s) == startStreaming([s EXCEPT !.tlock = "none"])

(* connect(): one chunk in the detection loop *)
detectionChunk(s, value) ==
    LET tb == s.textBuffer \o decode(value) IN
    IF includes(tb, NOT_INITIALIZED)
    THEN sendConfig([s EXCEPT !.textBuffer = tb, !.tlock = "none",
                       !.hist = [@ EXCEPT !.detected =
                                    IF s.timeLeft > 0 THEN "intime" ELSE "late"]])
    ELSE LET kept == IF Len(tb) > TEXT_LIMIT THEN sliceLast(tb, TEXT_KEEP) ELSE tb
             s1 == [s EXCEPT !.textBuffer = kept]
         IN  IF s.timeLeft > 0 THEN s1 ELSE detectionExit(s1)

\* the bytes of chunk `value` that follow the first `sub` in text, text ending with value
RestAfter(text, sub, value) ==
    LET i == CHOOSE k \in 0..(Len(text) - Len(sub)) :
                 /\ SubSeq(text, k + 1, k + Len(sub)) = sub
                 /\ \A j \in 0..(k - 1) : SubSeq(text, j + 1, j + Len(sub)) # sub
        n == Len(text) - (i + Len(sub))
    IN  SubSeq(value, Len(value) - n + 1, Len(value))

(* readUntil: `return acc` and `finally { r.releaseLock() }`, then connect() *)
(* goes on after its `await readUntil(...)`                                  *)
readUntilFound(s, value, text) ==
    LET when == IF s.timeLeft > 0 THEN "intime" ELSE "late"
        s1 == [s EXCEPT !.acc = text, !.tlock = "none"]
    IN  IF s.cpc = "ack1"
        THEN sendRun([s1 EXCEPT !.hist = [@ EXCEPT !.ok1 = when]])
        ELSE startStreaming([s1 EXCEPT !.hist =
                 [@ EXCEPT !.ok2 = when, !.okDone = TRUE,
                           !.afterOk = RestAfter(text, OK, value)]])

(* readUntil: `throw new Error('readUntil timeout or stream closed')` *)
readUntilThrow(s) == hsFail([s EXCEPT !.tlock = "none"])

(* readUntil: one chunk in its loop *)
readUntilChunk(s, value) ==
    LET text == s.acc \o decode(value) IN
    IF includes(text, OK)
    THEN readUntilFound(s, value, text)
    ELSE LET kept == IF Len(text) > ACC_LIMIT THEN sliceLast(text, ACC_KEEP) ELSE text
             s1 == [s EXCEPT !.acc = kept]
         IN  IF s.timeLeft > 0 THEN s1 ELSE readUntilThrow(s1)

(* readLoop: the loop is left; `finally { reader && reader.releaseLock() }` *)
readLoopExit(s) ==
    [s EXCEPT !.reader = IF @ = "locked" THEN "released" ELSE @, !.rpc = "off"]

(* readLoop: one chunk, then `while (keepReading && reader)` *)
readLoopChunk(s, value) ==
    LET r == readChunk(s.buffer, value)
        s1 == [s EXCEPT !.buffer = r.buffer, !.events = @ \o r.events,
                        !.hist = [@ EXCEPT !.fed = @ \o value,
                                           !.afterOk = IF s.hist.okDone THEN @ \o value ELSE @]]
    IN  IF s1.keepReading /\ s1.reader # "null" THEN s1 ELSE readLoopExit(s1)

----------------------------------------------------------------------------
(* The device and the user *)

MaxChunks == 4
MaxFaults == 2
MaxConnects == 2
TickMs == 500

\* "#NOT_INITIALIZED\n", "#OK\n", "#OK\n" followed by a status frame
ChNotInit == NOT_INITIALIZED \o <<10>>
ChOk == OK \o <<10>>
ChOkFrame == OK \o <<10>> \o FrameB

\* what one read may deliver; a status frame is also the text without a marker
DeviceChunks == { ChNotInit, ChOk, ChOkFrame, FrameB }

SessionIdle ==
    /\ port = "null" /\ reader = "null" /\ writer = "null"
    /\ keepReading = FALSE /\ textBuffer = <<>>
    /\ connectBtn = FALSE /\ disconnectBtn = TRUE
    /\ cpc = "idle" /\ dpc = [d \in D |-> "idle"] /\ rpc = "off"
    /\ tlock = "none" /\ acc = <<>> /\ timeLeft = 0
    /\ portOpen = FALSE /\ gone = FALSE /\ written = <<>>
    /\ hist = HistInit
    /\ nchunks = 0 /\ nfaults = 0 /\ nconnects = 0

HarnessIdle ==
    /\ stream = <<>> /\ pos = 0 /\ oneByOne = TRUE
    /\ buffer0 = <<>> /\ events0 = <<>>

LibIdle ==
    /\ statusArray = <<>> /\ received = <<>>
    /\ input = <<>> /\ output = <<>>

Init ==
    /\ SessionIdle
    /\ HarnessIdle
    /\ LibIdle
    /\ buffer = <<>> /\ events = <<>>

Delivers == nchunks < MaxChunks /\ nchunks' = nchunks + 1 /\ UNCHANGED <<nfaults, nconnects>>
Faults == nfaults < MaxFaults /\ nfaults' = nfaults + 1 /\ UNCHANGED <<nchunks, nconnects>>
Runs == UNCHANGED <<nchunks, nfaults, nconnects>>

\* The continuation of a read that reader.cancel() resolved is queued as a
\* microtask: it runs before any other task, so nothing else is ready meanwhile
Ready == rpc # "cancelled"

\* click on Connect, when no earlier connect() or disconnect() is still
\* running: connect() up to `await port.open(...)`; open() rejects on a port
\* that is opened
ConnectClick ==
    /\ Ready /\ cpc = "idle" /\ ~connectBtn /\ nconnects < MaxConnects
    /\ \A d \in D : dpc[d] = "idle"
    /\ nconnects' = nconnects + 1 /\ UNCHANGED <<nchunks, nfaults>>
    /\ LET s == [Cur EXCEPT !.port = "P", !.hist = [HistInit EXCEPT !.left = buffer],
                             !.written = <<>>]
       IN  Becomes(IF s.portOpen
                   THEN connCatch(s)
                   ELSE [s EXCEPT !.cpc = "open"])

\* port.open() settles; on success connect() runs up to the first tempReader.read()
OpenDone(ok) ==
    /\ Ready /\ cpc = "open" /\ Runs
    /\ Becomes(IF ~ok \/ gone THEN connCatch(Cur)
               ELSE IF port = "null"
               THEN connCatch([Cur EXCEPT !.portOpen = TRUE, !.connectBtn = TRUE,
                                          !.disconnectBtn = FALSE, !.textBuffer = <<>>])
               ELSE [Cur EXCEPT !.portOpen = TRUE, !.connectBtn = TRUE,
                                !.disconnectBtn = FALSE, !.textBuffer = <<>>,
                                !.tlock = "temp", !.timeLeft = DETECT_MS, !.cpc = "det"])

\* time passes during a wait
Tick ==
    /\ Ready /\ cpc \in {"det", "ack1", "ack2"} /\ timeLeft > 0 /\ Runs
    /\ Becomes([Cur EXCEPT !.timeLeft = Max(0, @ - TickMs)])

\* tempReader.read() resolves with a chunk
DetectionChunk(value) ==
    /\ Ready /\ cpc = "det" /\ Delivers
    /\ Becomes(detectionChunk(Cur, value))

\* tempReader.read() resolves with done or rejects: the loop is left either way
DetectionEnd(fatal) ==
    /\ Ready /\ cpc = "det" /\ Faults
    /\ Becomes(detectionExit([Cur EXCEPT !.gone = fatal,
                                          !.hist = [@ EXCEPT !.fault = "det"]]))

\* writer.write() of CONFIG or RUN settles
WriteDone ==
    /\ Ready /\ cpc \in {"cfg", "run"} /\ Runs
    /\ Becomes(readUntil(Cur, IF cpc = "cfg" THEN "ack1" ELSE "ack2"))

\* r.read() of readUntil resolves with a chunk
AckChunk(value) ==
    /\ Ready /\ cpc \in {"ack1", "ack2"} /\ Delivers
    /\ Becomes(readUntilChunk(Cur, value))

\* r.read() of readUntil resolves with done or rejects
AckEnd(fatal) ==
    /\ Ready /\ cpc \in {"ack1", "ack2"} /\ Faults
    /\ Becomes(readUntilThrow([Cur EXCEPT !.gone = fatal,
                                           !.hist = [@ EXCEPT !.fault = "ack"]]))

\* reader.read() of readLoop resolves with a chunk
LoopChunk(value) ==
    /\ Ready /\ rpc = "reading" /\ Delivers
    /\ Becomes(readLoopChunk(Cur, value))

\* reader.read() of readLoop resolves with done or rejects
LoopEnd(fatal) ==
    /\ Ready /\ rpc = "reading" /\ Faults
    /\ Becomes(readLoopExit([Cur EXCEPT !.gone = fatal,
                                         !.hist = [@ EXCEPT !.fault = "loop"]]))

\* the read that reader.cancel() resolved with done: readLoop leaves its loop
LoopCancelled ==
    /\ rpc = "cancelled" /\ Runs
    /\ Becomes(readLoopExit(Cur))

\* click on Disconnect
DisconnectClick ==
    LET d == IF dpc["click1"] = "idle" THEN "click1" ELSE "click2" IN
    /\ Ready /\ ~disconnectBtn /\ dpc[d] = "idle" /\ Runs
    /\ Becomes(discStart([Cur EXCEPT !.hist = [@ EXCEPT !.userDiscHs =
                              @ \/ cpc \in {"det", "ack1", "ack2"}]], d))

\* reader.cancel() settles: `await reader.releaseLock(); reader = null;` and on
DiscCancelDone(d) ==
    /\ Ready /\ dpc[d] = "cancel" /\ Runs
    /\ Becomes(IF reader = "null" THEN discFinally(Cur, d)
               ELSE discWriter([Cur EXCEPT !.reader = "null"], d))

\* writer.close() settles: `writer.releaseLock(); writer = null;` and on
DiscWriterClosed(d) ==
    /\ Ready /\ dpc[d] = "wclose" /\ Runs
    /\ Becomes(discPort([Cur EXCEPT !.writer = "null"], d))

\* port.close() resolves: `port = null; setStatus('closed');`
DiscPortClosed(d) ==
    /\ Ready /\ dpc[d] = "pclose" /\ Runs
    /\ Becomes(discFinally([Cur EXCEPT !.port = "null"], d))

Next ==
    \/ LoopCancelled
    \/ ConnectClick
    \/ \E ok \in BOOLEAN : OpenDone(ok)
    \/ Tick
    \/ \E value \in DeviceChunks : DetectionChunk(value)
    \/ \E fatal \in BOOLEAN : DetectionEnd(fatal)
    \/ WriteDone
    \/ \E value \in DeviceChunks : AckChunk(value)
    \/ \E fatal \in BOOLEAN : AckEnd(fatal)
    \/ \E value \in DeviceChunks : LoopChunk(value)
    \/ \E fatal \in BOOLEAN : LoopEnd(fatal)
    \/ DisconnectClick
    \/ \E d \in D : DiscCancelDone(d)
    \/ \E d \in D : DiscWriterClosed(d)
    \/ \E d \in D : DiscPortClosed(d)

Spec == Init /\ [][Next]_vars

----------------------------------------------------------------------------
(* The reassembly harness: readLoop alone, reading a device stream in      *)
(* chunks of any sizes; the session is the one of a running read loop.     *)

InitFrames ==
    /\ port = "P" /\ reader = "locked" /\ writer = "null"
    /\ keepReading = TRUE /\ textBuffer = <<>>
    /\ connectBtn = TRUE /\ disconnectBtn = FALSE
    /\ cpc = "idle" /\ dpc = [d \in D |-> "idle"] /\ rpc = "reading"
    /\ tlock = "none" /\ acc = <<>> /\ timeLeft = 0
    /\ portOpen = TRUE /\ gone = FALSE /\ written = <<>>
    /\ hist = [HistInit EXCEPT !.streamed = TRUE]
    /\ nchunks = 0 /\ nfaults = 0 /\ nconnects = 1
    /\ stream \in Streams
    /\ pos = 0
    /\ oneByOne = TRUE
    /\ buffer = <<>>
    /\ events = <<>>
    /\ buffer0 = <<>>
    /\ events0 = <<>>
    /\ LibIdle

\* reader.read() resolves with the next n bytes; readLoop processes them
StreamRead(n) ==
    LET value == SubSeq(stream, pos + 1, pos + n)
        r == readChunk(buffer, value)
        r0 == readChunk0(buffer0, value)
    IN  /\ rpc = "reading" /\ keepReading /\ reader = "locked"
        /\ pos' = pos + n
        /\ oneByOne' = (oneByOne /\ n = 1)
        /\ buffer' = r.buffer
        /\ events' = events \o r.events
        /\ buffer0' = r0.buffer
        /\ events0' = events0 \o r0.events
        /\ UNCHANGED <<stream, sessionVars, libVars>>

NextFrames == \E n \in ReadSizes(Len(stream) - pos) : StreamRead(n)

SpecFrames == InitFrames /\ [][NextFrames]_vars

----------------------------------------------------------------------------
(* readLoop reading from a transport whose chunks have at most `cap` bytes *)

\* a message of the greatest length, 257 bytes in all: length byte 255,
\* command 2
FrameLong == <<SENTINEL, 255, 2>> \o Rep(0, 254)

ChunkCaps == {1, 7, 45}

\* noise that with the 0xFF of the message fills a buffer of 1024 bytes and
\* one chunk, and noise two bytes longer, before a message of the greatest
\* length and a frame; such a message between two frames; 0xFF bytes only
CapStreams(cap) ==
    { Rep(0, TRIM_LIMIT + cap - 1) \o FrameLong \o FrameB,
      Rep(0, TRIM_LIMIT + cap + 1) \o FrameLong \o FrameB,
      FrameA \o FrameLong \o FrameB,
      Rep(SENTINEL, Len(FrameLong) + 2) }

InitCapped ==
    /\ port = "P" /\ reader = "locked" /\ writer = "null"
    /\ keepReading = TRUE /\ textBuffer = <<>>
    /\ connectBtn = TRUE /\ disconnectBtn = FALSE
    /\ cpc = "idle" /\ dpc = [d \in D |-> "idle"] /\ rpc = "reading"
    /\ tlock = "none" /\ acc = <<>> /\ timeLeft = 0
    /\ portOpen = TRUE /\ gone = FALSE /\ written = <<>>
    /\ hist = [HistInit EXCEPT !.streamed = TRUE]
    /\ nchunks = 0 /\ nfaults = 0 /\ nconnects = 1
    /\ \E cap \in ChunkCaps :
          /\ input = [cap |-> cap]
          /\ stream \in CapStreams(cap)
    /\ pos = 0
    /\ oneByOne = TRUE
    /\ buffer = <<>>
    /\ events = <<>>
    /\ buffer0 = <<>>
    /\ events0 = <<>>
    /\ statusArray = <<>> /\ received = <<>> /\ output = <<>>

\* reader.read() resolves with the next n bytes, one byte or as many as the
\* transport delivers at most; readLoop processes them
CappedRead(n) ==
    /\ n \in {1, input.cap} /\ n <= Len(stream) - pos
    /\ StreamRead(n)

NextCapped == \E n \in ChunkCaps : CappedRead(n)

SpecCapped == InitCapped /\ [][NextCapped]_vars

----------------------------------------------------------------------------
(* The inner loop of readLoop, one iteration at a time, on a buffer to      *)
(* which a chunk has been appended                                          *)

MaxBuf == 5

RECURSIVE SeqsUpTo(_, _)
SeqsUpTo(S, n) ==
    IF n = 0 THEN { <<>> }
    ELSE LET shorter == SeqsUpTo(S, n - 1)
         IN  shorter \cup { Append(s, b) : s \in { x \in shorter : Len(x) = n - 1 }, b \in S }

\* every buffer of up to MaxBuf bytes out of 0xFF, 0, 1 and 3, and three
\* buffers with frames
LoopBuffers ==
    SeqsUpTo({SENTINEL, 0, 1, 3}, MaxBuf)
        \cup { FrameA \o FrameB, <<SENTINEL, 0>> \o FrameEmpty \o <<SENTINEL>>,
               FrameBad \o FrameCmd2 \o SubSeq(FrameB, 1, 9) }

InitLoop ==
    /\ port = "P" /\ reader = "locked" /\ writer = "null"
    /\ keepReading = TRUE /\ textBuffer = <<>>
    /\ connectBtn = TRUE /\ disconnectBtn = FALSE
    /\ cpc = "idle" /\ dpc = [d \in D |-> "idle"] /\ rpc = "parsing"
    /\ tlock = "none" /\ acc = <<>> /\ timeLeft = 0
    /\ portOpen = TRUE /\ gone = FALSE /\ written = <<>>
    /\ hist = [HistInit EXCEPT !.streamed = TRUE]
    /\ nchunks = 0 /\ nfaults = 0 /\ nconnects = 1
    /\ HarnessIdle
    /\ buffer \in LoopBuffers
    /\ input = buffer
    /\ events = <<>>
    /\ output = [iterations |-> 0, extractions |-> 0]
    /\ statusArray = <<>> /\ received = <<>>

\* one iteration of the inner loop; after a `break` readLoop awaits the next
\* reader.read()
LoopIteration ==
    LET r == iteration(buffer) IN
    /\ rpc = "parsing"
    /\ buffer' = r.buffer
    /\ events' = events \o r.events
    /\ rpc' = IF r.stop THEN "reading" ELSE "parsing"
    /\ output' = [iterations |-> output.iterations + 1,
                  extractions |-> output.extractions + (IF r.stop THEN 0 ELSE 1)]
    /\ UNCHANGED <<port, reader, writer, keepReading, textBuffer, connectBtn,
                   disconnectBtn, cpc, dpc, tlock, acc, timeLeft, portOpen, gone,
                   written, hist, nchunks, nfaults, nconnects>>
    /\ UNCHANGED <<harnessVars, statusArray, received, input>>

NextLoop == LoopIteration

SpecLoop == InitLoop /\ [][NextLoop]_vars

\* the loop is synchronous code: an iteration that can run does run
SpecLoopRuns == SpecLoop /\ WF_vars(LoopIteration)

----------------------------------------------------------------------------
(* One wait of the handshake on its own: the detection loop of connect() or *)
(* a readUntil('#OK', 200), fed a text stream cut into chunks               *)

\* n characters 'x'
Filler(n) == Rep(120, n)

\* the marker after filler that ends 10 characters below the limit of the
\* accumulator, after filler that ends two characters before the end of the
\* first small chunk above the limit, and alone
StreamsFor(marker, limit) ==
    { Filler(limit - 10) \o marker \o <<10>>,
      Filler(limit + limit \div 200 - 2) \o marker \o <<10>>,
      marker \o <<10>> }

\* the sizes of the chunks of one read: small, half the limit, just under it,
\* or all the rest
TextSizes(limit, rest) ==
    { n \in { limit \div 200, limit \div 2, limit - 5, rest } : 1 <= n /\ n <= rest }

AccLimit(which) == IF which = "det" THEN TEXT_LIMIT ELSE ACC_LIMIT
Marker(which) == IF which = "det" THEN NOT_INITIALIZED ELSE OK

\* connect() at its first tempReader.read(), or at the first r.read() of the
\* first or the second readUntil
InitText ==
    /\ LibIdle
    /\ port = "P" /\ portOpen = TRUE /\ gone = FALSE
    /\ reader = "null" /\ keepReading = FALSE /\ rpc = "off"
    /\ connectBtn = TRUE /\ disconnectBtn = FALSE
    /\ dpc = [d \in D |-> "idle"]
    /\ textBuffer = <<>> /\ acc = <<>>
    /\ buffer = <<>> /\ events = <<>>
    /\ nchunks = 0 /\ nfaults = 0 /\ nconnects = 1
    /\ cpc \in {"det", "ack1", "ack2"}
    /\ tlock = (IF cpc = "det" THEN "temp" ELSE "until")
    /\ timeLeft = (IF cpc = "det" THEN DETECT_MS ELSE ACK_MS)
    /\ writer = (IF cpc = "det" THEN "null" ELSE "locked")
    /\ written = (CASE cpc = "det" -> <<>> [] cpc = "ack1" -> <<"CONFIG">>
                    [] OTHER -> <<"CONFIG", "RUN">>)
    /\ hist = [HistInit EXCEPT !.detected = IF cpc = "det" THEN "none" ELSE "intime",
                               !.ok1 = IF cpc = "ack2" THEN "intime" ELSE "none"]
    /\ stream \in StreamsFor(Marker(cpc), AccLimit(cpc))
    /\ pos = 0 /\ oneByOne = TRUE /\ buffer0 = <<>> /\ events0 = <<>>

\* the pending read of the wait resolves with the next n bytes of the stream
TextRead(n) ==
    LET value == SubSeq(stream, pos + 1, pos + n)
    IN  /\ cpc \in {"det", "ack1", "ack2"}
        /\ pos' = pos + n
        /\ Sets(IF cpc = "det" THEN detectionChunk(Cur, value)
                               ELSE readUntilChunk(Cur, value))
        /\ UNCHANGED <<stream, oneByOne, buffer0, events0, nchunks, nfaults, nconnects, libVars>>

\* the deadline of the wait passes while its read is pending
TextTick ==
    /\ cpc \in {"det", "ack1", "ack2"} /\ timeLeft > 0
    /\ timeLeft' = 0
    /\ UNCHANGED <<port, reader, writer, keepReading, textBuffer, connectBtn, disconnectBtn,
                   cpc, dpc, rpc, tlock, acc, portOpen, gone, written, hist,
                   nchunks, nfaults, nconnects, buffer, events, harnessVars, libVars>>

NextText ==
    \/ \E n \in TextSizes(AccLimit(cpc), Len(stream) - pos) : TextRead(n)
    \/ TextTick

SpecText == InitText /\ [][NextText]_vars

----------------------------------------------------------------------------
(* computeChecksum, the validation of readLoop and parseMessage, each      *)
(* called on its own with arguments drawn from a set                       *)

\* nothing of the page is running
PageIdle == SessionIdle /\ HarnessIdle /\ buffer = <<>> /\ events = <<>>

\* long enough for a sum of 0xFF bytes to pass 0xFFFF
WrapLen == 258

ChecksumArgs ==
    { <<>>, <<0>>, <<255>>, <<1, 2, 3>>, Rep(255, WrapLen), Rep(255, WrapLen - 2), <<255, 255>>,
      slice(FrameB, 2, Len(FrameB)), slice(FrameBad, 2, Len(FrameBad)),
      slice(FrameA, 2, Len(FrameA)), slice(FlipChecksumBit(FrameA, 9), 2, Len(FrameA)),
      slice(FrameEmpty, 2, Len(FrameEmpty)) }

\* the argument of the k-th call: a, b, then a followed by b
Arg(k) == CASE k = 1 -> input.a [] k = 2 -> input.b [] OTHER -> input.a \o input.b

\* output.res holds the values returned so far, output.i and output.sum the
\* loop variables of the call in progress
InitChecksum ==
    /\ PageIdle
    /\ statusArray = <<>> /\ received = <<>>
    /\ input \in { [a |-> a, b |-> b] : a \in ChecksumArgs, b \in ChecksumArgs }
    /\ output = [res |-> <<>>, i |-> 0, sum |-> 0, events |-> <<>>]

\* one turn of the loop of computeChecksum
ChecksumStep ==
    /\ Len(output.res) < 3
    /\ output.i < Len(Arg(Len(output.res) + 1))
    /\ output' = [output EXCEPT !.i = @ + 1,
                     !.sum = addByte(@, Arg(Len(output.res) + 1)[output.i + 1])]
    /\ UNCHANGED <<sessionVars, buffer, events, harnessVars, statusArray, received, input>>

\* the loop ends and computeChecksum returns sum
ChecksumReturn ==
    /\ Len(output.res) < 3
    /\ output.i >= Len(Arg(Len(output.res) + 1))
    /\ output' = [output EXCEPT !.res = Append(@, output.sum), !.i = 0, !.sum = 0]
    /\ UNCHANGED <<sessionVars, buffer, events, harnessVars, statusArray, received, input>>

\* readLoop's validation of the complete command-1 message input.a
CallValidate ==
    /\ Len(output.res) = 3 /\ output.events = <<>>
    /\ Len(input.a) >= 3 /\ input.a[1] = 1
    /\ output' = [output EXCEPT !.events = messageEvents(input.a)]
    /\ UNCHANGED <<sessionVars, buffer, events, harnessVars, statusArray, received, input>>

NextChecksum == ChecksumStep \/ ChecksumReturn \/ CallValidate

SpecChecksum == InitChecksum /\ [][NextChecksum]_vars

\* 40 struct bytes, the byte at offset i being 101 + i, with the bytes of id,
\* of time_offset_ms, of the padding and of drive_mode replaced
StructBytes(id, time, pad, mode) ==
    [i \in 1..STRUCT_SIZE |->
        CASE i \in {1, 2}   -> id[i]
          [] i \in {5, 6}   -> time[i - 4]
          [] i \in {7, 8}   -> pad[i - 6]
          [] i = 39         -> mode
          [] OTHER          -> 100 + i]

PairBytes == { <<0, 0>>, <<7, 0>>, <<255, 255>>, <<0, 128>>, <<254, 127>> }
PadBytes == { <<0, 0>>, <<255, 1>> }

\* buf and other differ at most in the two padding bytes
DecodeArgs ==
    { [buf |-> StructBytes(id, time, pad, mode) \o tail,
       other |-> StructBytes(id, time, pad2, mode) \o tail] :
         id \in PairBytes, time \in PairBytes, pad \in PadBytes, pad2 \in PadBytes,
         mode \in {2, 255}, tail \in { <<>>, <<9, 9, 9>> } }

\* struct images of all-ones bytes (every float a NaN), of zeros, and with
\* latitude +Infinity, alone and followed by three bytes
ExtremeArgs ==
    { [buf |-> s \o tail, other |-> s \o tail] :
         s \in { Rep(255, STRUCT_SIZE), Rep(0, STRUCT_SIZE),
                 [i \in 1..STRUCT_SIZE |-> IF i = 16 THEN 127 ELSE IF i = 15 THEN 240 ELSE 0] },
         tail \in { <<>>, <<9, 9, 9>> } }

\* how many bytes of buf are handed over, and the start offset
Takes == { 0, 39, 40, 42 }
Offsets == { 0, 2 }

InitDecode ==
    /\ PageIdle
    /\ statusArray = <<>> /\ received = <<>>
    /\ input \in { [buf |-> a.buf, other |-> a.other, take |-> n, off |-> o] :
                      a \in DecodeArgs \cup ExtremeArgs,
                      n \in Takes, o \in Offsets }
    /\ Len(input.buf) >= input.take
    /\ output = <<>>

\* parseMessage(buf, 0) and parseMessage(other, 0)
CallParseMessage ==
    /\ output = <<>>
    /\ output' = [rec |-> parseMessage(input.buf, 0), rec2 |-> parseMessage(input.other, 0)]
    /\ UNCHANGED <<sessionVars, buffer, events, harnessVars, statusArray, received, input>>

\* parseMessage(p, off) for the first `take` bytes of buf and for all of buf
CallParseMessageAt ==
    /\ output = <<>>
    /\ output' = [cut |-> parseMessage(SubSeq(input.buf, 1, input.take), input.off),
                  whole |-> parseMessage(input.buf, input.off)]
    /\ UNCHANGED <<sessionVars, buffer, events, harnessVars, statusArray, received, input>>

NextDecode == CallParseMessage \/ CallParseMessageAt

SpecDecode == InitDecode /\ [][NextDecode]_vars

----------------------------------------------------------------------------
(* statusArray: updateStatusArray called with decoded records, and the     *)
(* click handlers of the tree entries, which toggle _expanded              *)

\* Object.assign(target, s) on records
assign(target, s) ==
    [f \in DOMAIN target \cup DOMAIN s |-> IF f \in DOMAIN s THEN s[f] ELSE target[f]]

\* statusArray.findIndex(item => Number(item.id) === id), 0-based, -1 if none
findIndex(arr, id) ==
    IF \E k \in 1..Len(arr) : arr[k].id = id
    THEN (CHOOSE k \in 1..Len(arr) :
             arr[k].id = id /\ \A j \in 1..(k - 1) : arr[j].id # id) - 1
    ELSE -1

\* updateStatusArray with the element replaced by a fresh copy of s
updateStatusArray_ReplacesEntry(arr, s) ==
    LET idx == findIndex(arr, s.id)
        entry == assign([_expanded |-> FALSE], s)
    IN  IF idx >= 0 THEN [arr EXCEPT ![idx + 1] = [entry EXCEPT !._expanded = FALSE]]
        ELSE Append(arr, [entry EXCEPT !._expanded = FALSE])

\* updateStatusArray(s) for a record s with an id: the array afterwards
updateStatusArray(arr, s) ==
    LET idx == findIndex(arr, s.id) IN
    IF idx >= 0
    THEN LET expanded == arr[idx + 1]._expanded
         IN  [arr EXCEPT ![idx + 1] = [assign(@, s) EXCEPT !._expanded = expanded]]
    ELSE LET entry == assign([_expanded |-> FALSE], s)
         IN  Append(arr, [entry EXCEPT !._expanded = FALSE])

MaxCalls == 3

\* the records that parseMessage decodes from struct images with ids 7, 8, 9
StatusRecords ==
    { parseMessage(StructBytes(<<id, 0>>, <<0, 0>>, <<0, 0>>, mode), 0)[1] :
        id \in {7, 8, 9}, mode \in {2, 3} }

InitStatus ==
    /\ PageIdle
    /\ statusArray = <<>> /\ received = <<>>
    /\ input = <<>> /\ output = <<>>

\* readLoop: `if (status) updateStatusArray(status)`
UpdateStatus(s) ==
    /\ Len(received) < MaxCalls
    /\ statusArray' = updateStatusArray(statusArray, s)
    /\ received' = Append(received, s)
    /\ UNCHANGED <<sessionVars, buffer, events, harnessVars, input, output>>

\* a click on the header or on the entry of element i
ToggleExpanded(i) ==
    /\ i \in 1..Len(statusArray)
    /\ statusArray' = [statusArray EXCEPT ![i]._expanded = ~@]
    /\ UNCHANGED <<sessionVars, buffer, events, harnessVars, input, output, received>>

NextStatus ==
    \/ \E s \in StatusRecords : UpdateStatus(s)
    \/ \E i \in 1..MaxCalls : ToggleExpanded(i)

SpecStatus == InitStatus /\ [][NextStatus]_vars

----------------------------------------------------------------------------
(* Properties of the reassembly *)

Delivered == SubSeq(stream, 1, pos)

Records(ev) == SelectSeq(ev, LAMBDA e : e.kind = "record")
HasKind(ev, k) == \E i \in 1..Len(ev) : ev[i].kind = k

\* C1: however a byte stream is split into non-empty chunks, the read loop
\* (in script.js and in variant part_000) has emitted exactly the records and
\* diagnostics that it emits when the same bytes arrive as one single chunk.
C1_ChunkIndependence ==
    /\ events = parseLoop(Delivered, <<>>).events
    /\ events0 = parseLoop0(Delivered, <<>>).events

\* C1 witness: a stream of noise, a record and a diagnostic fully read one byte
\* at a time, across a trim of the buffer
C1_Witness ==
    /\ oneByOne /\ pos = Len(stream) /\ pos > TRIM_LIMIT
    /\ HasKind(events, "record")
    /\ Len(buffer) < pos

\* a buffer whose first sentinel starts a message that is not complete
Incomplete(buf) ==
    LET i == indexOf(buf, SENTINEL)
    IN  /\ i # -1
        /\ \/ Len(buf) < i + 2
           \/ Len(buf) < i + 2 + buf[i + 2]

\* C2: when, after a chunk is appended, the first 0xFF of the buffer lacks its
\* length byte or fewer than 2 + length bytes are there from it, the read loop
\* removes no byte and emits nothing (so a message is parsed only once whole).
C2_PartialFrameWaits ==
    [][ LET b == buffer \o SubSeq(stream, pos + 1, pos')
        IN  Incomplete(b) => (buffer' = b /\ events' = events) ]_vars

\* C2 witness: a sentinel, its length byte and part of its message wait in the
\* buffer, nothing emitted for them
C2_Witness ==
    /\ Len(buffer) >= 10 /\ buffer[1] = SENTINEL /\ Incomplete(buffer)
    /\ buffer = Delivered /\ events = <<>>

\* the checksum pair of payload f matches the sum of its command and data bytes
ChecksumOk(f) ==
    f[Len(f) - 1] * 256 + f[Len(f)] = SumBytes(SubSeq(f, 1, Len(f) - 2)) % 65536

\* C3: a record is emitted only for a message with command 1 whose checksum
\* pair equals the byte sum (mod 65536) of command and data; a frame with one
\* bit of its checksum pair inverted (id 8 here) never yields a record.
C3_RecordOnlyIfChecksum ==
    /\ \A i \in 1..Len(events) :
          events[i].kind = "record" =>
             LET f == events[i].frame
             IN  Len(f) >= 3 /\ f[1] = 1 /\ ChecksumOk(f)
    /\ stream \in FlipStreams =>
          \A i \in 1..Len(events) :
             events[i].kind = "record" => events[i].status[1].id # 8

\* C3 witness: the frame with an inverted bit in its checksum high byte was
\* read whole and dropped, the valid frame after it decoded
C3_Witness ==
    /\ stream = FlipChecksumBit(FrameB, 15) \o FrameA
    /\ pos = Len(stream)
    /\ Len(events) = 2
    /\ events[1].kind = "checksum" /\ events[2].kind = "record"

\* the payloads of the complete frames of byte stream s, by the wire format
RECURSIVE WireFrames(_)
WireFrames(s) ==
    LET i == indexOf(s, SENTINEL) IN
    IF i = -1 \/ Len(s) < i + 2 THEN <<>>
    ELSE LET n == s[i + 2]
         IN  IF Len(s) < i + 2 + n THEN <<>>
             ELSE <<SubSeq(s, i + 3, i + 2 + n)>> \o WireFrames(SubSeq(s, i + 3 + n, Len(s)))

Qualifies(f) ==
    /\ Len(f) >= 3 /\ f[1] = 1 /\ ChecksumOk(f)
    /\ Len(f) - 3 >= STRUCT_SIZE

\* C4: the records handed to the consumer are, in stream order, exactly one per
\* frame of the stream that has command 1, a matching checksum and at least
\* 40 data bytes; no other frame yields a record.
C4_OneRecordPerValidFrame ==
    LET recs == Records(events)
        good == SelectSeq(WireFrames(Delivered), Qualifies)
    IN  /\ Len(recs) = Len(good)
        /\ \A i \in 1..Len(recs) :
              /\ recs[i].frame = good[i]
              /\ Len(recs[i].status) = 1
              /\ recs[i].status[1].id = good[i][2] + 256 * good[i][3]
        /\ \A i \in 1..Len(events) : events[i].kind # "record" => events[i].status = <<>>

\* C4 witness: two different valid frames read whole, two records in their order
C4_Witness ==
    /\ stream = FrameB \o FrameA /\ pos = Len(stream)
    /\ Len(events) = 2
    /\ events[1].kind = "record" /\ events[1].status[1].id = 8
    /\ events[2].kind = "record" /\ events[2].status[1].id = 7

\* what is left of byte stream s after its complete frames, by the wire format
RECURSIVE Rest(_)
Rest(s) ==
    LET i == indexOf(s, SENTINEL) IN
    IF i = -1 \/ Len(s) < i + 2 THEN s
    ELSE LET n == s[i + 2]
         IN  IF Len(s) < i + 2 + n THEN s
             ELSE Rest(SubSeq(s, i + 3 + n, Len(s)))

\* the complete frames with command 1 and a checksum pair
Command1(f) == Len(f) >= 3 /\ f[1] = 1
Cmd1Frames(s) == SelectSeq(WireFrames(s), Command1)

\* the buffer is what follows the last complete frame (while nothing was trimmed)
Consumed == Len(Delivered) <= TRIM_LIMIT => buffer = Rest(Delivered)

\* C14: a complete command-1 frame whose checksum pair does not match yields
\* exactly one checksum diagnostic and no record, in stream order among the
\* events of the other command-1 frames (so a valid frame after it is still
\* decoded), and exactly the bytes up to the end of each complete frame are
\* consumed.
C14_ChecksumMismatchDropsFrame ==
    LET fr == Cmd1Frames(Delivered)
    IN  /\ Len(events) = Len(fr)
        /\ \A i \in 1..Len(events) :
              /\ events[i].kind = "checksum" <=> ~ChecksumOk(fr[i])
              /\ events[i].kind = "checksum" =>
                    (events[i].frame = fr[i] /\ events[i].status = <<>>)
        /\ Consumed

\* C14 witness: two corrupted frames in a row, each read whole: two
\* diagnostics, nothing left in the buffer
C14_Witness ==
    /\ stream = FrameBad \o FrameBad /\ pos = Len(stream)
    /\ Len(events) = 2 /\ buffer = <<>>
    /\ events[1].kind = "checksum" /\ events[2].kind = "checksum"

\* C15: in script.js and in variant part_000, a complete command-1 frame with
\* a matching checksum and fewer than 40 data bytes yields exactly one
\* too-short diagnostic and no record, and the loop goes on with the next
\* frame.
C15_ShortDataOnlyDiagnostic ==
    LET fr == Cmd1Frames(Delivered)
    IN  \A ev \in {events, events0} :
           /\ Len(ev) = Len(fr)
           /\ \A i \in 1..Len(ev) :
                 (ChecksumOk(fr[i]) /\ Len(fr[i]) - 3 < STRUCT_SIZE) =>
                     (ev[i].kind = "tooShort" /\ ev[i].status = <<>>)

\* C16: a complete frame whose command is not 1 or whose length byte is below
\* 3 yields no event at all (the events are, in order, those of the other
\* frames), and its 2 + length bytes are removed, so that the frames after
\* it are processed.
C16_OtherFramesSilentlyDropped ==
    LET fr == Cmd1Frames(Delivered)
    IN  /\ Len(events) = Len(fr)
        /\ \A i \in 1..Len(events) : events[i].frame = fr[i]
        /\ Consumed

\* C16 witness: a frame with length byte 2 and a frame with command 2, each
\* dropped without an event, and the frame after them decoded
C16_Witness ==
    \/ /\ stream = <<SENTINEL, 2, 1, 0>> \o FrameB /\ pos = Len(stream)
       /\ Len(events) = 1 /\ events[1].kind = "record" /\ buffer = <<>>
       /\ Len(WireFrames(Delivered)) = 2
    \/ /\ stream = FrameCmd2 \o FrameA /\ pos = Len(stream)
       /\ Len(events) = 1 /\ events[1].kind = "record" /\ buffer = <<>>
       /\ Len(WireFrames(Delivered)) = 2

C18_Bounded ==
    /\ indexOf(buffer, SENTINEL) = -1 => Len(buffer) <= TRIM_LIMIT
    /\ indexOf(buffer0, SENTINEL) = -1 => Len(buffer0) <= TRIM_LIMIT

C18_Trims ==
    LET value == SubSeq(stream, pos + 1, pos')
        b == buffer \o value
        b0 == buffer0 \o value
    IN  /\ (indexOf(b, SENTINEL) = -1 /\ Len(b) > TRIM_LIMIT) =>
               buffer' = SubSeq(b, Len(b) - TRIM_KEEP + 1, Len(b))
        /\ (indexOf(b0, SENTINEL) = -1 /\ Len(b0) > TRIM_LIMIT) =>
               buffer0' = SubSeq(b0, Len(b0) - TRIM_KEEP + 1, Len(b0))

\* C18: after each chunk, a buffer without 0xFF holds at most 1024 bytes; when
\* the buffer with the chunk appended held more than 1024 bytes and no 0xFF,
\* exactly its last 512 bytes are kept.
C18_SentinelFreeBufferBounded == [] C18_Bounded /\ [][C18_Trims]_vars

\* C18 witness: the buffer has just been cut to its last 512 bytes
C18_Witness ==
    /\ pos > TRIM_LIMIT /\ Len(buffer) = TRIM_KEEP /\ Len(buffer0) = TRIM_KEEP
    /\ indexOf(buffer, SENTINEL) = -1 /\ events = <<>>

\* C19: when a valid frame with 0xFF in its data is followed by a valid frame
\* (id 8 here) and all bytes have arrived, the following frame has been
\* extracted at its boundary and decoded: it is the last record emitted and
\* nothing of it is left in the buffer.
C19_EmbeddedSentinelHarmless ==
    (stream \in EmbeddedStreams /\ pos = Len(stream)) =>
        /\ buffer = <<>>
        /\ Len(events) >= 1
        /\ events[Len(events)].kind = "record"
        /\ events[Len(events)].status[1].id = 8

\* the decoded speed v is raw / 1000
Scaled(v, raw) == v.den > 0 /\ v.num * 1000 = raw * v.den

\* C20: in script.js and in variant part_000, speed_x, speed_y and rot_speed
\* of every decoded record are the signed 16-bit little-endian integers at
\* data offsets 32, 34 and 36 divided by 1000.
C20_SpeedsScaledByThousand ==
    \A ev \in {events, events0} :
       \A i \in 1..Len(ev) :
          ev[i].kind = "record" =>
             LET f == ev[i].frame
                 r == ev[i].status[1]
             IN  /\ Scaled(r.speed_x, getInt16(f, 33))
                 /\ Scaled(r.speed_y, getInt16(f, 35))
                 /\ Scaled(r.rot_speed, getInt16(f, 37))

----------------------------------------------------------------------------
(* Properties of the session *)

HandshakeInTime ==
    /\ hist.detected = "intime" /\ hist.ok1 = "intime" /\ hist.ok2 = "intime"
    /\ written = <<"CONFIG", "RUN">>

\* C5: when #NOT_INITIALIZED was received within the detection window and
\* #OK was received before the deadline after the CONFIG write and again
\* before the deadline after the RUN write, the streaming read loop has been
\* started (by the step that received the second #OK) and the handshake has
\* not run disconnect().
C5_HandshakeReachesStreaming ==
    HandshakeInTime => (hist.streamed /\ ~hist.hsTeardown)

C5_Witness ==
    HandshakeInTime /\ rpc = "reading" /\ keepReading /\ reader = "locked"

\* C6: when no #OK was received before the deadline that follows the CONFIG
\* write, the session fails: RUN is not written and the streaming read loop
\* is never started.
C6_NoAckInTimeFails ==
    hist.ok1 = "late" => (written = <<"CONFIG">> /\ ~hist.streamed)

\* C7: when the detection window has elapsed without #NOT_INITIALIZED, the
\* session writes neither CONFIG nor RUN.
C7_WindowElapsedSkipsHandshake ==
    hist.detected = "late" => written = <<>>

\* C8: the bytes delivered after the #OK that completed the handshake are,
\* in order, the bytes appended to the reassembly buffer.
C8_BytesAfterOkReachBuffer ==
    hist.okDone => hist.fed = hist.afterOk

\* a disconnect() invoked while readLoop awaited a chunk is running or has completed
Stopping == hist.down \/ \E d \in D : hist.discStream[d]

C9_Completed ==
    (hist.down /\ \A d \in D : dpc[d] = "idle") =>
        /\ reader = "null" /\ writer = "null" /\ port = "null"
        /\ ~portOpen /\ rpc = "off" /\ tlock = "none"

C9_Quiet ==
    (Stopping /\ Stopping') => (events' = events /\ rpc' # "reading" /\ ~keepReading')

C10_DisconnectInHandshakeStops ==
    hist.userDiscHs => (~keepReading /\ rpc # "reading" /\ ~hist.streamed)

\* nothing of the page script is running: connect() and every disconnect()
\* have returned and readLoop is not waiting
Quiescent == cpc = "idle" /\ rpc = "off" /\ \A d \in D : dpc[d] = "idle"

\* no stream lock is held and the port is closed
Released == reader # "locked" /\ tlock = "none" /\ writer = "null" /\ ~portOpen

\* C11: once the transport has signalled end-of-stream or a read error
\* (during detection, an ack wait or streaming), the session is not
\* streaming, and when the script has come to rest the reader and writer
\* locks are released and the port is closed.
C11_TransportEndTearsDown ==
    hist.fault # "none" => (rpc # "reading" /\ (Quiescent => Released))

\* C12: when a session has ended through disconnect() and the script has
\* come to rest, the reader lock is released, the writer is released and
\* the port is closed.
C12_EndedReleasesAll ==
    (hist.ended /\ Quiescent) => Released

C13_Down ==
    hist.hsTeardown =>
        /\ ~hist.streamed /\ rpc = "off" /\ tlock = "none" /\ ~keepReading
        /\ cpc \in {"disc", "idle"}
        /\ Quiescent => (Released /\ port = "null" /\ reader = "null")

C13_StaysDown ==
    (hist.hsTeardown /\ hist'.hsTeardown) =>
        (written' = written /\ nchunks' = nchunks /\ (portOpen' => portOpen))

\* C13: once an ack wait has failed, connect() runs disconnect() and returns:
\* the streaming read loop is not started, nothing more is written or read,
\* the port is not opened again (until a new click on Connect), and when the
\* script has come to rest the writer is released and the port closed.
C13_FailedAckStaysDown == [] C13_Down /\ [][C13_StaysDown]_vars

\* C17: an #OK that arrives after the deadline of its ack wait is never
\* accepted, neither by the wait after CONFIG nor by the wait after RUN.
C17_LateAckNeverAccepted ==
    hist.ok1 # "late" /\ hist.ok2 # "late"

----------------------------------------------------------------------------
(* Properties of the functions *)

\* C21: for an input of at least 40 bytes the decoded id, sync_id,
\* time_offset_ms, drive_mode and aux_data_status are the little-endian
\* values at offsets 0, 2, 4 (signed), 38 and 39, and latitude, longitude,
\* heading and cov_pos are read from bytes 8..15, 16..23, 24..27 and 28..31.
C21_FieldLayout ==
    ("rec" \in DOMAIN output /\ Len(input.buf) >= STRUCT_SIZE) =>
        LET b == input.buf
            u == b[5] + 256 * b[6]
        IN  /\ Len(output.rec) = 1
            /\ output.rec[1].id = b[1] + 256 * b[2]
            /\ output.rec[1].sync_id = b[3] + 256 * b[4]
            /\ output.rec[1].time_offset_ms = (IF u >= 32768 THEN u - 65536 ELSE u)
            /\ output.rec[1].drive_mode = b[39]
            /\ output.rec[1].aux_data_status = b[40]
            /\ output.rec[1].latitude = getFloat64(SubSeq(b, 9, 16), 0)
            /\ output.rec[1].longitude = getFloat64(SubSeq(b, 17, 24), 0)
            /\ output.rec[1].heading = getFloat32(SubSeq(b, 25, 28), 0)
            /\ output.rec[1].cov_pos = getFloat32(SubSeq(b, 29, 32), 0)

\* C21 witness: a record with id 0xFFFF and a negative time offset decoded
\* from 43 bytes
C21_Witness ==
    /\ "rec" \in DOMAIN output /\ Len(input.buf) = STRUCT_SIZE + 3
    /\ output.rec[1].id = 65535 /\ output.rec[1].time_offset_ms = -32768
    /\ output.rec[1].drive_mode = 255

\* the sum of the bytes of s
RECURSIVE ByteSum(_)
ByteSum(s) ==
    IF Len(s) = 0 THEN 0
    ELSE IF Len(s) = 1 THEN s[1]
    ELSE ByteSum(SubSeq(s, 1, Len(s) \div 2)) + ByteSum(SubSeq(s, Len(s) \div 2 + 1, Len(s)))

\* C22: computeChecksum returns the sum of the bytes modulo 65536 (0 for the
\* empty sequence) and changes neither its argument nor anything of the
\* page; readLoop takes a command-1 message as valid exactly when that value
\* of its bytes without the last two equals checksum_hi * 256 + checksum_lo.
C22_ChecksumIsByteSum ==
    /\ [] ( "res" \in DOMAIN output =>
              \A k \in 1..Len(output.res) :
                  /\ output.res[k] = ByteSum(Arg(k)) % 65536
                  /\ output.res[k] \in 0..65535
                  /\ Arg(k) = <<>> => output.res[k] = 0 )
    /\ [] ( ("res" \in DOMAIN output /\ output.events # <<>>) =>
              LET m == input.a
                  sum == ByteSum(SubSeq(m, 1, Len(m) - 2)) % 65536
              IN  /\ Len(output.events) = 1
                  /\ output.events[1].kind # "checksum" <=>
                        sum = m[Len(m) - 1] * 256 + m[Len(m)] )
    /\ [][NextChecksum => UNCHANGED <<input, buffer, events, sessionVars>>]_vars

\* C22 witness: the checksum of a run of 0xFF bytes whose sum passes 0xFFFF
C22_Witness ==
    /\ "res" \in DOMAIN output /\ Len(output.res) >= 1
    /\ input.a = Rep(255, WrapLen) /\ output.res[1] = (255 * WrapLen) % 65536
    /\ 255 * WrapLen > 65535

\* C29: computeChecksum of a concatenation is the sum of the two checksums
\* modulo 65536.
C29_ChecksumOfConcatenation ==
    ("res" \in DOMAIN output /\ Len(output.res) = 3) =>
        output.res[3] = (output.res[1] + output.res[2]) % 65536

\* C29 witness: two different sequences whose checksums add up to more than
\* 0xFFFF
C29_Witness ==
    /\ "res" \in DOMAIN output /\ Len(output.res) = 3
    /\ output.res[1] + output.res[2] > 65535
    /\ input.a # input.b

\* C30: two inputs of at least 40 bytes that differ only in the bytes at
\* offsets 6 and 7 decode to the same record.
C30_PaddingIgnored ==
    "rec" \in DOMAIN output => output.rec = output.rec2

\* C30 witness: two inputs that do differ in the padding, decoded
C30_Witness ==
    /\ "rec" \in DOMAIN output /\ input.buf # input.other
    /\ Len(output.rec) = 1 /\ output.rec = output.rec2

\* the ids of recs in order of first occurrence
RECURSIVE FirstIds(_)
FirstIds(recs) ==
    IF recs = <<>> THEN <<>>
    ELSE LET front == FirstIds(SubSeq(recs, 1, Len(recs) - 1))
             id == recs[Len(recs)].id
         IN  IF \E k \in 1..Len(front) : front[k] = id THEN front ELSE Append(front, id)

\* the last record of recs with the given id
Latest(recs, id) ==
    recs[CHOOSE k \in 1..Len(recs) :
            recs[k].id = id /\ \A j \in (k + 1)..Len(recs) : recs[j].id # id]

C23_OnePerId ==
    /\ Len(statusArray) = Len(FirstIds(received))
    /\ \A i \in 1..Len(statusArray) :
          /\ statusArray[i].id = FirstIds(received)[i]
          /\ DOMAIN statusArray[i] = DOMAIN Latest(received, statusArray[i].id) \cup {"_expanded"}
          /\ \A f \in DOMAIN Latest(received, statusArray[i].id) :
                statusArray[i][f] = Latest(received, statusArray[i].id)[f]

C23_Update ==
    received' # received =>
        LET s == received'[Len(received')] IN
        IF \E i \in 1..Len(statusArray) : statusArray[i].id = s.id
        THEN /\ Len(statusArray') = Len(statusArray)
             /\ \A j \in 1..Len(statusArray) :
                   /\ statusArray'[j].id = statusArray[j].id
                   /\ statusArray'[j]._expanded = statusArray[j]._expanded
                   /\ statusArray[j].id # s.id => statusArray'[j] = statusArray[j]
        ELSE /\ Len(statusArray') = Len(statusArray) + 1
             /\ SubSeq(statusArray', 1, Len(statusArray)) = statusArray
             /\ statusArray'[Len(statusArray')]._expanded = FALSE
             /\ \A f \in DOMAIN s : statusArray'[Len(statusArray')][f] = s[f]

\* C23: statusArray holds one element per distinct id received, in order of
\* first arrival, with the fields of the latest record of that id; a record
\* of a present id keeps every element's position and _expanded flag and
\* changes no other element; a record of a new id is appended with
\* _expanded = false.
C23_StatusArrayKeyedById == []C23_OnePerId /\ [][C23_Update]_vars

\* C23 witness: three records of two ids received, the first element
\* expanded by a click and then overwritten by a later record of its id
C23_Witness ==
    /\ Len(received) = 3 /\ Len(statusArray) = 2
    /\ received[1].id = received[3].id /\ received[1] # received[3]
    /\ statusArray[1]._expanded /\ statusArray[1].drive_mode = received[3].drive_mode

----------------------------------------------------------------------------
(* Further properties of the reassembly *)

\* the buffers that removals of the two kinds lead to from b: the trim of a
\* sentinel-free b longer than 1024 bytes to its last 512, and the removal
\* of everything up to the end of the message at the first 0xFF, 2 + length
\* bytes from that 0xFF, when those bytes are all there
RECURSIVE Removals(_)
Removals(b) ==
    LET i == indexOf(b, SENTINEL) IN
    IF i = -1
    THEN IF Len(b) > TRIM_LIMIT
         THEN {b, SubSeq(b, Len(b) - TRIM_KEEP + 1, Len(b))}
         ELSE {b}
    ELSE IF Len(b) >= i + 2 /\ Len(b) >= i + 2 + b[i + 2]
         THEN {b} \cup Removals(SubSeq(b, i + 3 + b[i + 2], Len(b)))
         ELSE {b}

C24_Suffix ==
    /\ Len(buffer) <= pos
    /\ buffer = SubSeq(stream, pos - Len(buffer) + 1, pos)

C24_Step ==
    buffer' \in Removals(buffer \o SubSeq(stream, pos + 1, pos'))

\* C24: bytes leave the buffer only by the overflow trim of a buffer without
\* 0xFF, or by the removal of the bytes before the first 0xFF together with
\* exactly 2 + length bytes from that 0xFF; what stays is the bytes that
\* followed in the stream.
C24_RemovalsAreTrimOrWholeFrame == []C24_Suffix /\ [][C24_Step]_vars

\* C24 witness: a noise byte removed with the frame that followed it, and
\* the next frame removed after it
C24_Witness ==
    /\ stream = <<0>> \o FrameA \o FrameB /\ pos = Len(stream)
    /\ buffer = <<>> /\ Len(Records(events)) = 2

\* a complete message starts at the first 0xFF of b
Extractable(b) ==
    LET i == indexOf(b, SENTINEL)
    IN  i # -1 /\ Len(b) >= i + 2 /\ Len(b) >= i + 2 + b[i + 2]

\* C28: between two chunks the buffer (of script.js and of variant part_000)
\* holds no complete message at its first 0xFF, and every complete command-1
\* message of the bytes delivered so far has had its event emitted.
C28_NoExtractableFrameLeft ==
    /\ ~Extractable(buffer) /\ ~Extractable(buffer0)
    /\ Len(events) = Len(Cmd1Frames(Delivered))
    /\ Rest(Delivered) # <<>> => buffer # <<>>

\* C28 witness: the first of two frames extracted and its record emitted,
\* the first four bytes of the second waiting in the buffer
C28_Witness ==
    /\ stream = FrameA \o FrameB /\ pos = Len(FrameA) + 4 /\ ~oneByOne
    /\ Len(events) = 1 /\ events[1].kind = "record"
    /\ buffer = SubSeq(FrameB, 1, 4)

\* the data bytes of a message: what lies between its command byte and its
\* two checksum bytes
DataBytes(f) == SubSeq(f, 2, Len(f) - 2)

\* C25: in script.js and in variant part_000, a command-1 message is taken
\* as valid exactly when the sum of its command and data bytes matches its
\* checksum pair, and what the decoder returns for a valid message is what
\* it returns for the message's data bytes alone (a record of them, or
\* nothing when they are fewer than 40): no checksum byte is decoded.
C25_DecoderGetsDataBytes ==
    /\ \A i \in 1..Len(events) :
          /\ events[i].kind # "checksum" <=> ChecksumOk(events[i].frame)
          /\ events[i].kind # "checksum" =>
                events[i].status = parseMessage(DataBytes(events[i].frame), 0)
    /\ \A i \in 1..Len(events0) :
          /\ events0[i].kind # "checksum" <=> ChecksumOk(events0[i].frame)
          /\ events0[i].kind # "checksum" =>
                events0[i].status = parseMessage0(DataBytes(events0[i].frame), 0)

----------------------------------------------------------------------------
(* Further properties of the session *)

\* a read() of connect() or of readUntil is pending
HandshakeReadPending == cpc \in {"det", "ack1", "ack2"}

\* a read() of readLoop is pending, or resolved by cancel() and not yet taken
LoopReadPending == rpc # "off"

\* C26: in every session the writes are a prefix of CONFIG, RUN; nothing is
\* written unless #NOT_INITIALIZED was seen; an ack wait is entered only
\* after the CONFIG write; RUN is written only after the first readUntil saw
\* #OK; while a write is in flight no read is pending and no reader holds
\* the readable.
C26_WritesArePrefixOfConfigRun ==
    /\ written \in { <<>>, <<"CONFIG">>, <<"CONFIG", "RUN">> }
    /\ written # <<>> => hist.detected # "none"
    /\ cpc \in {"ack1", "ack2"} => (written # <<>> /\ written[1] = "CONFIG")
    /\ hist.ok1 # "none" => written # <<>>
    /\ Len(written) = 2 => hist.ok1 # "none"
    /\ cpc \in {"cfg", "run"} =>
          (~HandshakeReadPending /\ ~LoopReadPending /\ tlock = "none" /\ reader # "locked")

\* C26 witness: the RUN write in flight after CONFIG and a #OK in time
C26_Witness ==
    /\ cpc = "run" /\ written = <<"CONFIG", "RUN">>
    /\ hist.detected = "intime" /\ hist.ok1 = "intime" /\ hist.ok2 = "none"

\* C27: the temporary reader of connect() or readUntil and the reader of
\* readLoop never hold the readable together, a read of the handshake and a
\* read of readLoop are never pending together, and each reader holds its
\* lock exactly while its own read is pending: it has released it when the
\* next reader is taken.
C27_OneReaderOneRead ==
    /\ ~(tlock # "none" /\ reader = "locked")
    /\ ~(HandshakeReadPending /\ LoopReadPending)
    /\ tlock # "none" <=> HandshakeReadPending
    /\ reader = "locked" <=> LoopReadPending
    /\ (cpc = "det" => tlock = "temp") /\ (cpc \in {"ack1", "ack2"} => tlock = "until")

\* C27 witness: the streaming reader reading, after the detection reader and
\* the two readers of readUntil have each been taken and released
C27_Witness ==
    /\ reader = "locked" /\ rpc = "reading" /\ tlock = "none" /\ cpc = "idle"
    /\ hist.detected # "none" /\ hist.ok1 # "none" /\ hist.ok2 # "none"
    /\ nchunks >= 3

----------------------------------------------------------------------------
(* Further properties of the functions *)

\* C31: parseMessage returns nothing exactly when fewer than 40 bytes lie
\* from the start offset to the end of its input; otherwise it returns a
\* record, whatever the bytes (floats that are NaN or infinite included),
\* and the record is that of the 40 bytes alone.
C31_DecoderTotalFromForty ==
    "cut" \in DOMAIN output =>
        /\ output.cut = <<>> <=> input.take < input.off + STRUCT_SIZE
        /\ output.whole = <<>> <=> Len(input.buf) < input.off + STRUCT_SIZE
        /\ output.cut # <<>> => (Len(output.cut) = 1 /\ output.cut = output.whole)
        /\ output.whole # <<>> =>
              (Len(output.whole) = 1 /\
               output.whole[1].id = input.buf[input.off + 1] + 256 * input.buf[input.off + 2])

\* C31 witness: 43 bytes 0xFF..0xFF 9 9 9 cut to 40: a record whose floats
\* are NaN, the same as for the 43 bytes
C31_Witness ==
    /\ "cut" \in DOMAIN output /\ input.take = STRUCT_SIZE /\ input.off = 0
    /\ Len(input.buf) = STRUCT_SIZE + 3 /\ input.buf[1] = 255 /\ input.buf[9] = 255
    /\ Len(output.cut) = 1 /\ output.cut[1].latitude.nan /\ output.cut[1].heading.nan

----------------------------------------------------------------------------
(* Properties of a wait of the handshake *)

\* the wait that started the run is still going on
Waiting == cpc \in {"det", "ack1", "ack2"}

\* the accumulator of the wait that started the run
Accumulator == IF written = <<>> THEN textBuffer ELSE acc

\* a chunk was processed in the detection loop / in readUntil
C32_DetectionChunkDone == pos' # pos /\ cpc = "det"
C32_AckChunkDone == pos' # pos /\ cpc \in {"ack1", "ack2"}

\* C32 as stated: after every chunk processed during detection the
\* accumulator holds at most 1000 characters, and after every chunk processed
\* during an ack wait at most 20000.
C32_AccumulatorBoundedAfterEveryChunk ==
    [][ /\ C32_DetectionChunkDone => Len(textBuffer') <= TEXT_LIMIT
        /\ C32_AckChunkDone => Len(acc') <= ACC_LIMIT ]_vars

\* the chunk of this step completed the marker of the wait
FoundNow ==
    CASE cpc = "det"  -> hist'.detected # "none"
      [] cpc = "ack1" -> hist'.ok1 # "none"
      [] OTHER        -> hist'.ok2 # "none"

\* the character that byte k of the stream decodes to
CharAt(k) == IF stream[k] < 128 THEN stream[k] ELSE 65533

\* the accumulator after this step is the end of the text delivered so far
DetectionTail == \A i \in 1..Len(textBuffer') : textBuffer'[i] = CharAt(pos' - Len(textBuffer') + i)
AckTail == \A i \in 1..Len(acc') : acc'[i] = CharAt(pos' - Len(acc') + i)

\* C32, amended: after every chunk that did not complete the marker, the
\* detection accumulator holds at most 1000 characters, being cut to its last
\* 500 when the chunk took it above 1000, and the ack accumulator at most
\* 20000, being cut to its last 4000; the chunk that completes the marker
\* ends the wait and leaves the accumulator uncut.
C32_AccumulatorBoundedWhileWaiting ==
    [][ /\ (C32_DetectionChunkDone /\ ~FoundNow) =>
              /\ Len(textBuffer') <= TEXT_LIMIT
              /\ Len(textBuffer') = IF Len(textBuffer) + (pos' - pos) > TEXT_LIMIT
                                    THEN TEXT_KEEP ELSE Len(textBuffer) + (pos' - pos)
              /\ DetectionTail
        /\ (C32_AckChunkDone /\ ~FoundNow) =>
              /\ Len(acc') <= ACC_LIMIT
              /\ Len(acc') = IF Len(acc) + (pos' - pos) > ACC_LIMIT
                             THEN ACC_KEEP ELSE Len(acc) + (pos' - pos)
              /\ AckTail
        /\ (C32_DetectionChunkDone /\ FoundNow) =>
              Len(textBuffer') = Len(textBuffer) + (pos' - pos)
        /\ (C32_AckChunkDone /\ FoundNow) =>
              Len(acc') = Len(acc) + (pos' - pos) ]_vars

\* C32 witness: an accumulator just cut to its trailing window, the wait
\* going on
C32_Witness ==
    /\ Waiting /\ pos > AccLimit(cpc)
    /\ Len(Accumulator) = (IF cpc = "det" THEN TEXT_KEEP ELSE ACC_KEEP)

\* the run is a detection wait (its stream ends with 'D', newline)
DetectionRun == stream[Len(stream) - 1] = 68

\* the marker of the run ends at character k of the stream
MarkerEndsAt(k) ==
    LET m == IF DetectionRun THEN NOT_INITIALIZED ELSE OK
    IN  /\ k >= Len(m)
        /\ \A j \in 1..Len(m) : CharAt(k - Len(m) + j) = m[j]

\* the text delivered so far holds the marker
Completed == \E k \in 1..pos : MarkerEndsAt(k)

\* connect() has taken the marker as seen: detection has ended with
\* initialized = false, or readUntil has returned (connect() is at the RUN
\* write, or has gone on to streaming)
Found ==
    IF DetectionRun THEN hist.detected # "none"
    ELSE cpc = "run" \/ hist.ok2 # "none"

\* C38: in a detection wait and in an ack wait, the marker is taken as seen
\* exactly when the chunks received so far hold it, however the text is cut
\* into chunks and whether or not the accumulator was cut before.
C38_MarkerFoundWhenComplete == Completed <=> Found

\* C38 witness: '#OK' found by a readUntil whose accumulator was cut before
\* the marker was complete
C38_Witness ==
    /\ Found /\ pos = Len(stream) /\ ~DetectionRun
    /\ Len(acc) < pos - ACC_LIMIT + ACC_KEEP + 200

----------------------------------------------------------------------------
(* Properties of a session after another *)

\* s ends with t
EndsWith(s, t) ==
    /\ Len(t) <= Len(s)
    /\ \A i \in 1..Len(t) : t[i] = s[Len(s) - Len(t) + i]

\* readLoop is started
StreamingStarts == ~hist.streamed /\ hist'.streamed

\* C33: streaming starts with an empty reassembly buffer, and from then on
\* the buffer holds nothing but bytes read by the readLoop of this session:
\* what an earlier session left unconsumed is not in it
C33_StreamingStartsEmpty ==
    /\ [](hist.streamed => EndsWith(hist.fed, buffer))
    /\ [][StreamingStarts => buffer' = <<>>]_vars

\* C33 witness: the second session streams, the first had left bytes in its
\* buffer, and the buffer holds the one chunk read since
C33_Witness ==
    /\ nconnects = 2 /\ hist.streamed /\ rpc = "reading"
    /\ hist.left # <<>> /\ hist.fed = FrameB /\ buffer = <<>>
    /\ Len(events) > 0 /\ events[Len(events)].kind = "record"

\* CONFIG and RUN were written and an '#OK' was observed after each
Configured ==
    /\ written = <<"CONFIG", "RUN">>
    /\ hist.ok1 # "none" /\ hist.ok2 # "none"

\* C34: readLoop is started only if '#NOT_INITIALIZED' was not detected or
\* the device was configured: CONFIG and RUN written, '#OK' observed after each
C34_StreamedOnlyIfInitializedOrConfigured ==
    hist.streamed => (hist.detected = "none" \/ Configured)

----------------------------------------------------------------------------
(* Properties of the overflow trim and of the inner loop *)

\* the length of the noise of a stream of NoiseStreams
NoiseLen == Len(stream) - Len(FrameB)

\* the bytes of the frame after the noise that have been delivered
FrameSoFar == SubSeq(stream, NoiseLen + 1, pos)

\* of a stream of noise and a frame: nothing is emitted and every delivered
\* byte of the frame is in the buffer until the frame is complete; then the
\* frame is decoded and the buffer is empty
C35_FrameKept ==
    stream \in NoiseStreams =>
        IF pos = Len(stream)
        THEN /\ buffer = <<>> /\ buffer0 = <<>>
             /\ Len(events) = 1 /\ events[1].kind = "record"
             /\ events[1].status[1].id = 8
             /\ Len(events0) = 1 /\ events0[1].kind = "record"
        ELSE /\ events = <<>> /\ events0 = <<>>
             /\ EndsWith(buffer, FrameSoFar) /\ EndsWith(buffer0, FrameSoFar)

\* byte k of buffer buf with the chunk read in this step appended, and the
\* length of the two
WithChunkAt(buf, k) == IF k <= Len(buf) THEN buf[k] ELSE stream[pos + k - Len(buf)]
WithChunkLen(buf) == Len(buf) + pos' - pos

\* buf with the chunk holds a 0xFF, and the message at the first one is not
\* complete
AwaitsMessage(buf) ==
    /\ \E i \in 1..WithChunkLen(buf) : WithChunkAt(buf, i) = SENTINEL
    /\ LET i == CHOOSE k \in 1..WithChunkLen(buf) :
                    /\ WithChunkAt(buf, k) = SENTINEL
                    /\ \A j \in 1..(k - 1) : WithChunkAt(buf, j) # SENTINEL
       IN  \/ WithChunkLen(buf) < i + 1
           \/ WithChunkLen(buf) < i + 1 + WithChunkAt(buf, i + 1)

\* buf with the chunk is what the step leaves in after
Untouched(buf, after) ==
    /\ Len(after) = WithChunkLen(buf)
    /\ \A k \in 1..Len(after) : after[k] = WithChunkAt(buf, k)

\* of any stream: a chunk after which the buffer holds a 0xFF whose message
\* is not complete removes nothing
C35_NoTrim ==
    /\ AwaitsMessage(buffer) => Untouched(buffer, buffer')
    /\ AwaitsMessage(buffer0) => Untouched(buffer0, buffer0')

\* C35: noise without 0xFF of any length before a valid frame does not keep
\* the frame from being decoded: the overflow trim removes nothing while a
\* 0xFF is in the buffer, so no byte of a frame in the buffer or arriving is
\* trimmed, and the frame is extracted once complete
C35_NoiseNeverCostsAFrame == []C35_FrameKept /\ [][C35_NoTrim]_vars

\* C35 witness: the first bytes of the frame have arrived and the buffer,
\* noise and frame bytes, holds more than 1024 bytes
C35_Witness ==
    /\ stream \in NoiseStreams /\ NoiseLen > TRIM_LIMIT
    /\ pos > NoiseLen /\ pos < Len(stream)
    /\ Len(buffer) > TRIM_LIMIT /\ events = <<>>

\* C36: when no chunk has more than cap bytes, the buffer (of script.js and
\* of variant part_000) holds at most 1024 + cap + 256 bytes after each chunk
C36_BufferBoundedByChunkSize ==
    /\ Len(buffer) <= 1024 + input.cap + 256
    /\ Len(buffer0) <= 1024 + input.cap + 256

\* C36 witness: 1024 bytes of noise, a chunk of 45 bytes that ends with 0xFF,
\* and all but the last byte of the message: 1024 + 45 + 255 bytes wait
C36_Witness ==
    /\ input.cap = 45 /\ events = <<>>
    /\ Len(buffer) = 1024 + input.cap + 255
    /\ buffer[TRIM_LIMIT + input.cap] = SENTINEL

\* an iteration of the inner loop either stops the loop or takes at least two
\* bytes off the buffer
C37_Step == rpc' = "reading" \/ Len(buffer') <= Len(buffer) - 2

\* twice the extractions made are no more than the bytes taken off the
\* buffer; when the loop has stopped, buffer and events are those of parseLoop
C37_Count ==
    /\ 2 * output.extractions <= Len(input) - Len(buffer)
    /\ rpc = "reading" =>
           /\ buffer = parseLoop(input, <<>>).buffer
           /\ events = parseLoop(input, <<>>).events

\* C37: on every buffer the inner loop stops; each iteration stops it or
\* removes at least 2 bytes (also with a length byte of 0), so the
\* extractions are at most half as many as the bytes of the buffer
C37_InnerLoopTerminates ==
    /\ [][C37_Step]_vars
    /\ []C37_Count
    /\ <>(rpc = "reading")

\* C37 witness: FF 00 FF 00 gone in two extractions of two bytes each, the
\* loop stopped by the third iteration
C37_Witness ==
    /\ input = <<SENTINEL, 0, SENTINEL, 0>> /\ rpc = "reading"
    /\ output.extractions = 2 /\ output.iterations = 3 /\ buffer = <<>>

----------------------------------------------------------------------------
(* Properties of disconnect() *)

\* this step invokes disconnect(): by a click on Disconnect, or from a catch
\* of connect()
DisconnectInvoked ==
    \/ DisconnectClick
    \/ cpc # "disc" /\ cpc' = "disc"
    \/ /\ cpc \notin {"idle", "disc"} /\ cpc' = "idle"
       /\ ~(hist'.streamed /\ ~hist.streamed)

NothingConnected == port = "null" /\ reader = "null" /\ writer = "null"

\* the invocation has run to its `finally` within the step, without awaiting
\* a cancel or a close, and has left the page disconnected
DisconnectedAtOnce ==
    /\ dpc' = dpc
    /\ reader' = "null" /\ writer' = "null" /\ port' = "null"
    /\ ~keepReading' /\ ~connectBtn' /\ disconnectBtn'

\* C39: disconnect() invoked when nothing is connected, or after a
\* disconnect() of the session has run to its end, cancels, closes and
\* releases nothing and leaves reader, writer and port null, keepReading
\* false, Connect enabled and Disconnect disabled
C39_DisconnectIdempotent ==
    [][(DisconnectInvoked /\ (NothingConnected \/ hist.ended)) => DisconnectedAtOnce]_vars

=============================================================================
